---------------------------- MODULE Spec2Model ----------------------------
(***************************************************************************)
(* A model of the Reflex proxy protocol (xray-core/proxy/reflex): the      *)
(* replay tracker, the handshake timestamp window, the key agreement, the  *)
(* AEAD frame channel and the inbound connection handler with its          *)
(* fallback relay.                                                         *)
(*                                                                         *)
(* The module holds several specifications over one set of variables; a    *)
(* specification leaves the variables of the other parts at their initial  *)
(* values.                                                                 *)
(*   SpecTracker   NonceTracker.Check (codec.go)                           *)
(*   SpecTime      ValidateTimestamp (handshake.go)                        *)
(*   SpecSession   the two Sessions of one connection and the frames they  *)
(*                 exchange (codec.go)                                     *)
(*   SpecInbound   the inbound handler serving connections one after the   *)
(*                 other (inbound.go), each opened by a prober or by an    *)
(*                 outbound handler (outbound)                             *)
(***************************************************************************)
EXTENDS Integers, Sequences, FiniteSets, TLC

(***************************************************************************)
(* Bounds of the model.                                                    *)
(***************************************************************************)
\* Largest tracker capacity explored (NewNonceTracker(maxEntries)).
MaxCap == 3
\* Number of Check calls explored on one tracker.
MaxChecks == 7
\* Width of the signed integers of the timestamp arithmetic (int64 in the
\* source, scaled down; two's complement wrap-around is kept).
IntBits == 16
\* time.Now().Unix() ranges over NowBase .. NowBase + NowSpan.
NowBase == 1000
NowSpan == 1
\* Timestamps are explored up to this many seconds past each edge.
TsMargin == 3
\* Number of WriteFrame calls explored on one connection, both peers together.
MaxFrames == 3
\* Number of session keys a connection may have derived.
NumKeys == 2
\* Capacity of the handler's tracker (NewNonceTracker(10000), scaled down).
TrackerEntries == 2
\* Number of connections the inbound handler serves.
MaxConns == 2
\* Number of private keys GenerateKeyPair draws from.
NumPriv == 2
\* Number of values the first eight bytes of a handshake nonce take.
NumPrefixes == 2
\* Number of threads that call WriteFrame on one Session.
NumWriters == 2
\* Number of connections that morph their traffic.
NumMorphConns == 2
\* Number of control frames the connections receive.
MaxControls == 2
\* Number of MorphWrite calls the connections make.
MaxWrites == 1
\* Number of rounds of the loop of one MorphWrite call.
MaxChunks == 2
\* Number of frames (or chunks) the reading pump of a tunnel reads.
MaxRead == 2
\* Number of buffers in the first multi-buffer of the outbound.
MaxFirstBuffers == 8
\* Timeouts.Handshake of the session policy, in ticks of the clock.
HandshakeTicks == 2
\* Number of items (first bytes, rest of the handshake, frames) a client sends.
MaxItems == 4
\* Number of connections that call NonceTracker.Check at the same time.
NumCheckers == 3
\* Number of changes the party on the transport makes to the bytes in flight.
MaxTampers == 1
\* Number of reads of link.Reader that return buffers.
MaxLinkReads == 2
\* Timeouts.ConnectionIdle of the session policy, in ticks of the clock.
IdleTicks == 2
\* Timeouts.DownlinkOnly and Timeouts.UplinkOnly, in ticks.
OnlyTicks == 1

(***************************************************************************)
(* Program constants.                                                      *)
(***************************************************************************)
MaxTimestampDrift == 120
FrameTypeData == 1
FrameTypePadding == 2
FrameTypeTiming == 3
FrameTypeClose == 4
FrameHeaderSize == 3
MaxFramePayload == 16384
\* chacha20poly1305.NonceSize and the AEAD's Overhead() (the Poly1305 tag).
NonceSize == 12
AeadOverhead == 16
ReflexMagic == 1380341836
HandshakeHeaderSize == 76
ServerHandshakeSize == 64
\* time.Millisecond, in nanoseconds.
Millisecond == 1000000
\* Parameters of the group that stands for Curve25519: X25519(k, u) is
\* u^k modulo DhPrime, and DhBase is curve25519.Basepoint.
DhPrime == 23
DhBase == 5
\* retry.ExponentialBackoff(5, 200): the number of attempts.
DialAttempts == 5
\* buf.Size of xray-core: the bytes one buf.Buffer holds, as b.Bytes() returns
\* them to the pumps.
BufferBytes == 8192

VARIABLES
    \* ---- the blocking reads of one inbound connection (inbound.go:97-226) ----
    wpc,          \* the read Process or handleSession stands at
    wMagic,       \* the client's first four bytes are the Reflex magic
    wFallback,    \* h.fallback != nil
    wDeadline,    \* the read deadline of conn: whether set, ticks left
    wTimer,       \* the ActivityTimer, NoTimer before it is made
    wQueue,       \* items the client sent that no read has taken
    wLeft,        \* items the client will still send
    \* ---- concurrent callers of NonceTracker.Check (codec.go:167) ----
    ntMu,         \* nt.mu: the caller that holds it, 0 when free
    ck,           \* per caller: where it stands in Check, its nonce, its result
    evicted,      \* an insertion found the set full and reset it
    \* ---- a party on the transport that holds no key ----
    tampers,      \* number of changes made to the bytes in flight
    \* ---- NonceTracker (codec.go:152) ----
    seen,         \* nt.seen: the set of remembered nonces
    max,          \* nt.max: the capacity
    calls,        \* number of Check calls made so far
    lastNonce,    \* argument of the last Check call (-1: none yet)
    lastResult,   \* value the last Check call returned
    accepts,      \* the nonces for which Check returned true, in call order
    clearedAt,    \* indices of accepts whose call dropped older entries
    sizeAt,       \* per nonce: size of seen right after its last acceptance
    others,       \* per nonce: the other nonces accepted since then
    \* ---- ValidateTimestamp (handshake.go:130) ----
    tsNow,        \* time.Now().Unix() at the call
    tsIn,         \* the timestamp argument
    tsDone,       \* whether the call was made
    tsOut,        \* the returned value
    \* ---- the Sessions of one connection (codec.go:33) ----
    sess,         \* per peer: its Session (key, readNonce, writeNonce)
    wire,         \* per peer: what it wrote that its peer has not read yet
    wrote,        \* per peer: the WriteFrame calls it made (type, data)
    got,          \* per peer: the frames its ReadFrame calls returned
    readErr,      \* per peer: a ReadFrame call returned an error
    sealLog,      \* every aead.Seal call made: key, nonce, who, which frame
    \* ---- the inbound handler and one connection (inbound.go) ----
    fallback,     \* h.fallback != nil
    clock,        \* time.Now().Unix() on the server
    conns,        \* connections accepted so far
    pc,           \* where Process stands on the current connection
    outcome,      \* how Process returned: "" while it runs
    sent,         \* every byte the client sends on this connection
    cpending,     \* the bytes of sent the client has not sent yet
    cin,          \* bytes sent and not yet read from the socket
    rbuf,         \* bytes the bufio.Reader holds (read, not yet consumed)
    cout,         \* bytes the handler wrote to the client connection
    peekErr,      \* reader.Peek(4) returned an error
    hs,           \* clientHS, once unmarshalled
    hsParsed,     \* UnmarshalClientHandshake returned without error
    recorded,     \* the nonce prefix was in the tracker when hs arrived
    entry,        \* clientEntry: <<e>> once authenticated, else <<>>
    fbWhy,        \* which branch of Process called handleFallback
    fbDialed,     \* internet.DialSystem was called for the fallback
    fbIn,         \* bytes the fallback origin received
    fbOut,        \* bytes the fallback origin has yet to answer
    serverKey,    \* sessionKey derived by the inbound handler
    dispatched,   \* dispatcher.Dispatch was called
    \* ---- the client of the connection (outbound Process) ----
    cli,          \* its private key, nonce and whether it is an outbound
    clientKey,    \* sessionKey derived by the outbound handler
    \* ---- the threads that call into one Session (codec.go:33-40) ----
    mu,           \* readMu and writeMu: the thread that holds each, 0 if none
    tpc,          \* per thread: where it stands in its call
    tloc,         \* per thread: the local variables of its call
    outLog,       \* every header and ciphertext the Session wrote, in order
    \* ---- traffic morphing (morph.go) ----
    registry,     \* BuiltinProfiles: per name, the cells of the profile
    morph,        \* per connection: its *TrafficMorph, <<>> for nil
    mstage,       \* per connection: whether handleSession has begun
    want,         \* per profile: the values of the control frames handled
                  \* since the last round that asked the profile
    mw,           \* per connection: its MorphWrite call and the frames it wrote
    mlast,        \* the last round of a MorphWrite loop: what it was given
    nctl,         \* number of control frames handled
    ctlConn,      \* the connection the last of them arrived on, 0 if none
    \* ---- the destination codec (inbound.go:303, outbound marshalDestination) ----
    dDest,        \* the destination that was marshalled, <<d>> or <<>>
    dTail,        \* the payload that followed it
    dData,        \* the bytes given to parseDestination
    dRes,         \* what parseDestination returned, <<r>> or <<>>
    dStage,       \* where the run stands
    \* one tunnel: an inbound session from the dispatch on, an outbound
    \* Process, or a fallback relay
    tSide,        \* which of the three handlers runs
    tStage,       \* where the handler stands
    tPolicy,      \* the profile name of the client entry or of the outbound
    tTarget,      \* outbound: ob.Target
    tDials,       \* outbound: calls of dialer.Dial so far
    tConnected,   \* outbound: a dial returned a connection
    tMorph,       \* the handler's morph: <<>> for nil
    tCells,       \* the override cells of the morph's profile
    firstPayload, \* inbound: the payload after the destination in the first frame
    connOut,      \* what the handler has written to its connection, in order
    linkOut,      \* what the handler has written to link.Writer (fbConn), in order
    linkLog,      \* the buffers link.Reader has handed to the writing pump
    linkReads,    \* calls of link.Reader so far
    firstRead,    \* outbound: what the timed first read returned
    rdLog,        \* the frames the reading pump has read
    closeAt,      \* Len(connOut) when the reading pump read CLOSE, else -1
    rdPump,       \* the pump that reads the connection
    wrPump,       \* the pump that writes the connection
    timer,        \* the ActivityTimer of the handler
    quiet,        \* ticks since the last transfer of either direction
    tResult,      \* what the handler returned
    interrupted   \* the ends of the upstream link common.Interrupt was called on

trackerVars == <<seen, max, calls, lastNonce, lastResult, accepts, clearedAt,
                 sizeAt, others>>
timeVars == <<tsNow, tsIn, tsDone, tsOut>>
sessVars == <<sess, wire, wrote, got, readErr, sealLog>>
connVars == <<fallback, clock, conns, pc, outcome, sent, cpending, cin, rbuf,
              cout, peekErr, hs, hsParsed, recorded, entry, fbWhy, fbDialed,
              fbIn, fbOut, serverKey, dispatched, cli, clientKey>>
threadVars == <<mu, tpc, tloc, outLog>>
\* The variables of the parts that are not in the tuples above.
morphVars == <<registry, morph, mstage, want, mw, mlast, nctl, ctlConn>>
destVars == <<dDest, dTail, dData, dRes, dStage>>
tunnelVars == <<tSide, tStage, tPolicy, tTarget, tDials, tConnected, tMorph,
                tCells, firstPayload, connOut, linkOut, linkLog, linkReads,
                firstRead, rdLog, closeAt, rdPump, wrPump, timer, quiet, tResult,
                interrupted>>
advVars == <<tampers>>
checkerVars == <<ntMu, ck, evicted>>
waitVars == <<wpc, wMagic, wFallback, wDeadline, wTimer, wQueue, wLeft>>
extraVars == <<threadVars, morphVars, destVars, tunnelVars, advVars, checkerVars, waitVars>>
restVars == <<timeVars, extraVars>>
vars == <<trackerVars, timeVars, sessVars, connVars, extraVars>>

(***************************************************************************)
(* NonceTracker                                                            *)
(***************************************************************************)
\* The nonces presented to the tracker: one more than the largest capacity,
\* so that a full tracker always meets a new nonce.
Nonces == 0 .. MaxCap

\* NewNonceTracker(maxEntries): an empty map and the capacity.
NewNonceTracker(maxEntries) ==
    /\ seen = {}
    /\ max = maxEntries

\* Mutant: the existence test is skipped and every nonce is reported new.
CheckResult_AlwaysNew(s, nonce) == TRUE

\* What Check(nonce) returns on the set s: false when the nonce exists.
CheckResult(s, nonce) == nonce \notin s

\* Mutant: the set is reset one entry before it is full.
CheckSeen_EvictEarly(s, m, nonce) ==
    IF nonce \in s
    THEN s
    ELSE (IF Cardinality(s) + 1 >= m THEN {} ELSE s) \cup {nonce}

\* Mutant: the set is never reset.
CheckSeen_NoClear(s, m, nonce) == s \cup {nonce}

\* The set Check(nonce) leaves behind.
CheckSeen(s, m, nonce) ==
    IF nonce \in s
    THEN s
    ELSE (IF Cardinality(s) >= m THEN {} ELSE s) \cup {nonce}

TrackerInit ==
    /\ \E m \in 1 .. MaxCap : NewNonceTracker(m)
    /\ calls = 0
    /\ lastNonce = -1
    /\ lastResult = FALSE
    /\ accepts = <<>>
    /\ clearedAt = {}
    /\ sizeAt = [n \in Nonces |-> 0]
    /\ others = [n \in Nonces |-> {}]

TrackerIdle ==
    /\ seen = {}
    /\ max = 0
    /\ calls = 0
    /\ lastNonce = -1
    /\ lastResult = FALSE
    /\ accepts = <<>>
    /\ clearedAt = {}
    /\ sizeAt = <<>>
    /\ others = <<>>

\* One call nt.Check(nonce), atomic under nt.mu.
Check(nonce) ==
    /\ calls < MaxChecks
    /\ calls' = calls + 1
    /\ lastNonce' = nonce
    /\ lastResult' = CheckResult(seen, nonce)
    /\ seen' = CheckSeen(seen, max, nonce)
    /\ UNCHANGED max
    /\ accepts' = IF lastResult' THEN Append(accepts, nonce) ELSE accepts
    /\ clearedAt' = IF lastResult' /\ ~(seen \subseteq seen')
                    THEN clearedAt \cup {Len(accepts')}
                    ELSE clearedAt
    /\ sizeAt' = IF lastResult'
                 THEN [sizeAt EXCEPT ![nonce] = Cardinality(seen')]
                 ELSE sizeAt
    /\ others' = IF lastResult'
                 THEN [n \in Nonces |->
                          IF n = nonce THEN {}
                          ELSE IF sizeAt[n] > 0 THEN others[n] \cup {nonce}
                          ELSE others[n]]
                 ELSE others

TrackerCheck == \E n \in Nonces : Check(n)

TrackerNext == TrackerCheck /\ UNCHANGED <<restVars, sessVars, connVars>>

(***************************************************************************)
(* ValidateTimestamp                                                       *)
(***************************************************************************)
Pow2(n) == 2 ^ n
MinInt == -Pow2(IntBits - 1)
MaxInt == Pow2(IntBits - 1) - 1

\* Two's complement wrap-around of a machine integer operation.
Wrap(x) == ((x + Pow2(IntBits - 1)) % Pow2(IntBits)) - Pow2(IntBits - 1)

Abs(x) == IF x < 0 THEN -x ELSE x

\*   diff := now - timestamp; if diff < 0 { diff = -diff }
\*   return diff <= MaxTimestampDrift
ValidateTimestamp(now, timestamp) ==
    LET diff0 == Wrap(now - timestamp)
        diff  == IF diff0 < 0 THEN Wrap(-diff0) ELSE diff0
    IN  diff <= MaxTimestampDrift

NowSet == NowBase .. NowBase + NowSpan

\* The timestamps explored: around now, around both edges of the window,
\* around the far side of the integer range and at its two ends.
TsSet(now) ==
    {Wrap(now + d) : d \in -(MaxTimestampDrift + TsMargin) ..
                            (MaxTimestampDrift + TsMargin)}
    \cup {Wrap(now + Pow2(IntBits - 1) + d) : d \in -TsMargin .. TsMargin}
    \cup {MinInt, MaxInt}

TimeInit ==
    /\ tsNow \in NowSet
    /\ tsIn \in TsSet(tsNow)
    /\ tsDone = FALSE
    /\ tsOut = FALSE

TimeIdle ==
    /\ tsNow = 0
    /\ tsIn = 0
    /\ tsDone = FALSE
    /\ tsOut = FALSE

TimeValidate ==
    /\ ~tsDone
    /\ tsDone' = TRUE
    /\ tsOut' = ValidateTimestamp(tsNow, tsIn)
    /\ UNCHANGED <<tsNow, tsIn>>

TimeNext ==
    TimeValidate /\ UNCHANGED <<trackerVars, sessVars, connVars, extraVars>>

(***************************************************************************)
(* Byte encodings (encoding/binary, big endian)                            *)
(***************************************************************************)
\* Byte k (0 = least significant) of the two's complement form of v. The
\* integers of the model fit in four bytes; the bytes above them repeat
\* the sign.
ByteAt(v, k) ==
    IF k >= 4 THEN (IF v < 0 THEN 255 ELSE 0) ELSE (v \div (256 ^ k)) % 256

\* binary.BigEndian.PutUint16 / PutUint64: v in n bytes.
PutBE(v, n) == [i \in 1 .. n |-> ByteAt(v, n - i)]

RECURSIVE GetBE(_)
\* binary.BigEndian.Uint16 / Uint64: the unsigned value of the bytes.
GetBE(b) ==
    IF Len(b) = 0 THEN 0
    ELSE 256 * GetBE(SubSeq(b, 1, Len(b) - 1)) + b[Len(b)]

(***************************************************************************)
(* Session: AEAD sealing and framing                                       *)
(*                                                                         *)
(* A plaintext is a record [size, id]: its length in bytes and a tag that  *)
(* stands for its content. A ciphertext is what aead.Seal made of it: it   *)
(* is size + AeadOverhead bytes long and opens only under the key and the  *)
(* nonce it was sealed with. The wire of one direction is the sequence of  *)
(* the headers and ciphertexts written to it.                              *)
(***************************************************************************)
Peers == {"client", "server"}
Other(p) == IF p = "client" THEN "server" ELSE "client"

FrameTypes == {FrameTypeData, FrameTypePadding, FrameTypeTiming, FrameTypeClose}
PlainSizes == {0, MaxFramePayload}
EmptyPlain == [size |-> 0, id |-> <<>>]

\* NewSession(sessionKey): both counters start at zero.
NewSession(sessionKey) ==
    [key |-> sessionKey, readNonce |-> 0, writeNonce |-> 0]

\* The 12-byte AEAD nonce of a counter value: four zero bytes, then
\* binary.BigEndian.PutUint64(nonce[4:], counter).
NonceOf(counter) == [i \in 1 .. 4 |-> 0] \o PutBE(counter, NonceSize - 4)

\* Mutant: the read counter is not incremented.
nextReadNonce_Stuck(s) == [nonce |-> NonceOf(s.readNonce), sess |-> s]

\* nextReadNonce: the nonce of the read counter, and the counter moved on.
nextReadNonce(s) ==
    [nonce |-> NonceOf(s.readNonce),
     sess |-> [s EXCEPT !.readNonce = @ + 1]]

\* nextWriteNonce: the nonce of the write counter, and the counter moved on.
nextWriteNonce(s) ==
    [nonce |-> NonceOf(s.writeNonce),
     sess |-> [s EXCEPT !.writeNonce = @ + 1]]

\* aead.Seal(nil, nonce, data, nil)
Seal(key, nonce, data) ==
    [kind |-> "ct", size |-> data.size + AeadOverhead,
     key |-> key, nonce |-> nonce, pt |-> data]

\* aead.Open(nil, nonce, ct, nil) succeeds on the bytes of one whole
\* ciphertext sealed under this key and nonce.
OpenOk(key, nonce, ct, length) ==
    /\ ct.kind = "ct"
    /\ ct.size = length
    /\ ct.key = key
    /\ ct.nonce = nonce

\* Mutant: the length field counts the plaintext, not the ciphertext.
HeaderOf_PlainLength(encrypted, frameType) ==
    [kind |-> "hdr", length |-> encrypted.pt.size % 65536, type |-> frameType]

\* binary.BigEndian.PutUint16(header[0:2], uint16(len(encrypted)))
\* header[2] = frameType
HeaderOf(encrypted, frameType) ==
    [kind |-> "hdr", length |-> encrypted.size % 65536, type |-> frameType]

\* What WriteFrame puts on the wire: the header, then the ciphertext.
WriteFrameBytes(s, frameType, data) ==
    LET encrypted == Seal(s.key, nextWriteNonce(s).nonce, data)
    IN  <<HeaderOf(encrypted, frameType), encrypted>>

\* Mutant: a header with length 0 moves the read counter on.
ReadFrameOn_EmptyAdvances(s, w) ==
    LET header == w[1]
        n == nextReadNonce(s)
        failed == [err |-> TRUE, type |-> 0, payload |-> EmptyPlain,
                   rest |-> <<>>, sess |-> n.sess]
    IN
    IF header.kind = "eof"
    THEN [err |-> TRUE, type |-> 0, payload |-> EmptyPlain, rest |-> w,
          sess |-> s]
    ELSE IF header.kind # "hdr" THEN failed
    ELSE IF header.length = 0
    THEN [err |-> FALSE, type |-> header.type, payload |-> EmptyPlain,
          rest |-> Tail(w), sess |-> n.sess]
    ELSE IF w[2].kind = "eof"
    THEN [err |-> TRUE, type |-> 0, payload |-> EmptyPlain, rest |-> Tail(w),
          sess |-> s]
    ELSE IF OpenOk(s.key, n.nonce, w[2], header.length)
    THEN [err |-> FALSE, type |-> header.type, payload |-> w[2].pt,
          rest |-> SubSeq(w, 3, Len(w)), sess |-> n.sess]
    ELSE failed

\* ReadFrame on session s reading the stream w. The result says whether
\* the call returned an error, the frame it returned, the stream left and
\* the session left.
ReadFrameOn(s, w) ==
    LET header == w[1]
        n == nextReadNonce(s)
        failed == [err |-> TRUE, type |-> 0, payload |-> EmptyPlain,
                   rest |-> <<>>, sess |-> n.sess]
    IN
    IF header.kind = "eof"
    THEN \* io.ReadFull of the header fails: ReadFrame returns at line 80
         [err |-> TRUE, type |-> 0, payload |-> EmptyPlain, rest |-> w,
          sess |-> s]
    ELSE IF header.kind # "hdr"
    THEN \* the stream is not at a frame boundary: what is taken for a
         \* header and a ciphertext opens under no nonce
         failed
    ELSE IF header.length = 0
    THEN [err |-> FALSE, type |-> header.type, payload |-> EmptyPlain,
          rest |-> Tail(w), sess |-> s]
    ELSE IF w[2].kind = "eof"
    THEN \* io.ReadFull of the ciphertext fails: ReadFrame returns at line 92
         [err |-> TRUE, type |-> 0, payload |-> EmptyPlain, rest |-> Tail(w),
          sess |-> s]
    ELSE IF OpenOk(s.key, n.nonce, w[2], header.length)
    THEN [err |-> FALSE, type |-> header.type, payload |-> w[2].pt,
          rest |-> SubSeq(w, 3, Len(w)), sess |-> n.sess]
    ELSE failed

\* A whole frame is there to be read: io.ReadFull blocks until then.
CanRead(w) ==
    /\ Len(w) >= 1
    /\ (w[1].kind = "hdr" /\ w[1].length > 0) => Len(w) >= 2

SessionKeys == 1 .. NumKeys

\* Both handlers build their Session from the session key of the connection
\* (inbound.go:189, outbound Process: NewSession(sessionKey)).
SessInit ==
    /\ \E k \in SessionKeys : sess = [p \in Peers |-> NewSession(k)]
    /\ wire = [p \in Peers |-> <<>>]
    /\ wrote = [p \in Peers |-> <<>>]
    /\ got = [p \in Peers |-> <<>>]
    /\ readErr = [p \in Peers |-> FALSE]
    /\ sealLog = {}

SessIdle ==
    /\ sess = <<>>
    /\ wire = <<>>
    /\ wrote = <<>>
    /\ got = <<>>
    /\ readErr = <<>>
    /\ sealLog = {}

FramesWritten == Len(wrote["client"]) + Len(wrote["server"])

\* sess.WriteFrame(conn, frameType, data) on peer p's Session, under writeMu.
WriteFrame(p, frameType, data) ==
    /\ FramesWritten < MaxFrames
    /\ wire' = [wire EXCEPT ![p] = @ \o WriteFrameBytes(sess[p], frameType, data)]
    /\ sealLog' = sealLog \cup
          {[key |-> sess[p].key, nonce |-> nextWriteNonce(sess[p]).nonce,
            by |-> p, seq |-> Len(wrote[p]) + 1]}
    /\ sess' = [sess EXCEPT ![p] = nextWriteNonce(@).sess]
    /\ wrote' = [wrote EXCEPT ![p] = Append(@, [type |-> frameType, data |-> data])]
    /\ UNCHANGED <<got, readErr>>

\* sess.ReadFrame(conn) on peer p's Session, under readMu; a pump that got
\* an error makes no further call.
ReadFrame(p) ==
    /\ ~readErr[p]
    /\ CanRead(wire[Other(p)])
    /\ LET r == ReadFrameOn(sess[p], wire[Other(p)]) IN
         /\ wire' = [wire EXCEPT ![Other(p)] = r.rest]
         /\ sess' = [sess EXCEPT ![p] = r.sess]
         /\ readErr' = [readErr EXCEPT ![p] = r.err]
         /\ got' = IF r.err THEN got
                   ELSE [got EXCEPT ![p] =
                           Append(@, [type |-> r.type, data |-> r.payload])]
    /\ UNCHANGED <<wrote, sealLog>>

\* The data of the next WriteFrame call of peer p: the content tag is new
\* with every call, an empty plaintext has no content.
NextData(p, size) ==
    [size |-> size,
     id |-> IF size = 0 THEN <<>> ELSE <<p, Len(wrote[p]) + 1>>]

SessWrite ==
    \E p \in Peers, t \in FrameTypes, n \in PlainSizes :
        WriteFrame(p, t, NextData(p, n))

SessRead == \E p \in Peers : ReadFrame(p)

SessNext ==
    \/ SessWrite /\ UNCHANGED <<trackerVars, restVars, connVars>>
    \/ SessRead /\ UNCHANGED <<trackerVars, restVars, connVars>>

(***************************************************************************)
(* Handshake: key agreement and the handshake codec (handshake.go)         *)
(*                                                                         *)
(* Keys, UUIDs and nonces are byte sequences, as in the source. A scalar   *)
(* multiplication on Curve25519 is modelled by an exponentiation modulo    *)
(* DhPrime, which has the algebra the key agreement relies on; HKDF is a   *)
(* function that is injective in its inputs.                               *)
(***************************************************************************)
RECURSIVE PowMod(_, _, _)
PowMod(b, e, m) == IF e = 0 THEN 1 % m ELSE (b * PowMod(b, e - 1, m)) % m

KeyBytes(v) == PutBE(v, 32)
Zero32 == [i \in 1 .. 32 |-> 0]

\* The scalar multiplication of curve25519, as exponentiation modulo DhPrime.
ScalarMult(scalar, point) == KeyBytes(PowMod(GetBE(point), scalar, DhPrime))

\* curve25519.X25519(scalar, point): err when the result is all zero.
X25519(scalar, point) ==
    [err |-> ScalarMult(scalar, point) = Zero32,
     out |-> ScalarMult(scalar, point)]

\* GenerateKeyPair with the random private key priv.
GenerateKeyPair(priv) ==
    [privateKey |-> priv, publicKey |-> X25519(priv, KeyBytes(DhBase)).out]

\* DeriveSharedSecret(privateKey, peerPublicKey)
DeriveSharedSecret(privateKey, peerPublicKey) == X25519(privateKey, peerPublicKey)

\* salt := make([]byte, 32); copy(salt, nonce)
SaltOf(nonce) ==
    [i \in 1 .. 32 |-> IF i <= Len(nonce) THEN nonce[i] ELSE 0]

\* Mutant: the salt is left at zero instead of taking the nonce.
DeriveSessionKey_NoSalt(sharedSecret, nonce) ==
    [ikm |-> sharedSecret, salt |-> Zero32, info |-> "reflex-session-key"]

\* DeriveSessionKey(sharedSecret, nonce): HKDF-SHA256 of the shared secret
\* with the padded nonce as salt.
DeriveSessionKey(sharedSecret, nonce) ==
    [ikm |-> sharedSecret, salt |-> SaltOf(nonce), info |-> "reflex-session-key"]

MagicBytes == PutBE(ReflexMagic, 4)

\* MarshalClientHandshake: magic, public key, user id, timestamp, nonce.
MarshalClientHandshake(h) ==
    MagicBytes \o h.PublicKey \o h.UserID \o PutBE(h.Timestamp, 8) \o h.Nonce

RECURSIVE GetSignedBE(_)
\* int64(binary.BigEndian.Uint64(b)): the two's complement value of b.
GetSignedBE(b) ==
    IF Len(b) = 1 THEN (IF b[1] >= 128 THEN b[1] - 256 ELSE b[1])
    ELSE 256 * GetSignedBE(SubSeq(b, 1, Len(b) - 1)) + b[Len(b)]

NoHandshake ==
    [PublicKey |-> <<>>, UserID |-> <<>>, Timestamp |-> 0, Nonce |-> <<>>]

\* UnmarshalClientHandshake(data)
UnmarshalClientHandshake(data) ==
    IF Len(data) < HandshakeHeaderSize
    THEN [err |-> TRUE, hs |-> NoHandshake]
    ELSE IF GetBE(SubSeq(data, 1, 4)) # ReflexMagic
    THEN [err |-> TRUE, hs |-> NoHandshake]
    ELSE [err |-> FALSE,
          hs |-> [PublicKey |-> SubSeq(data, 5, 36),
                  UserID |-> SubSeq(data, 37, 52),
                  Timestamp |-> GetSignedBE(SubSeq(data, 53, 60)),
                  Nonce |-> SubSeq(data, 61, 76)]]

\* MarshalServerHandshake: the public key, then the (zero) policy grant.
MarshalServerHandshake(publicKey) == publicKey \o Zero32

\* UnmarshalServerHandshake(data).PublicKey
UnmarshalServerHandshake(data) ==
    IF Len(data) < ServerHandshakeSize
    THEN [err |-> TRUE, PublicKey |-> <<>>]
    ELSE [err |-> FALSE, PublicKey |-> SubSeq(data, 1, 32)]

\* A client entry's ID string is kept in parsed form: the 16 bytes it stands
\* for, or the empty sequence when uuid.ParseString rejects it.
UuidBytes(u) == PutBE(u, 16)

RECURSIVE AuthenticateUser(_, _)
\* AuthenticateUser(userID, clients): the first entry whose ID parses to
\* userID; the empty sequence stands for nil.
AuthenticateUser(userID, clients) ==
    IF clients = <<>> THEN <<>>
    ELSE IF Head(clients).ID # <<>> /\ Head(clients).ID = userID
    THEN <<Head(clients)>>
    ELSE AuthenticateUser(userID, Tail(clients))

(***************************************************************************)
(* Destination codec (inbound.go parseDestination, outbound                *)
(* marshalDestination)                                                     *)
(***************************************************************************)
\* Mutant: a domain is written without its length byte.
marshalDestination_NoLength(dest) ==
    (IF dest.family = "ip"
     THEN (IF Len(dest.addr) = 4 THEN <<1>> ELSE <<3>>) \o dest.addr
     ELSE IF dest.family = "domain"
     THEN <<2>> \o dest.addr
     ELSE <<>>)
    \o PutBE(dest.port, 2)

\* marshalDestination(dest): address type, address, port.
marshalDestination(dest) ==
    (IF dest.family = "ip"
     THEN (IF Len(dest.addr) = 4 THEN <<1>> ELSE <<3>>) \o dest.addr
     ELSE IF dest.family = "domain"
     THEN <<2, Len(dest.addr) % 256>> \o dest.addr
     ELSE <<>>)
    \o PutBE(dest.port, 2)

NoDestination == [family |-> "none", addr |-> <<>>, port |-> 0]

\* net.IPAddress(ip): four bytes make an IPv4 address; sixteen bytes make an
\* IPv6 address unless they are an IPv4 address mapped into IPv6, which
\* becomes the IPv4 address of their last four bytes.
IPAddress(ip) ==
    IF Len(ip) = 16 /\ SubSeq(ip, 1, 10) = [i \in 1 .. 10 |-> 0]
       /\ ip[11] = 255 /\ ip[12] = 255
    THEN SubSeq(ip, 13, 16)
    ELSE ip

\* What parseDestination returns when it sees no fault, having taken an
\* address of n bytes after the first idx bytes: the destination and the
\* remaining payload. The slices data[idx:idx+n] and data[idx+n:idx+n+2]
\* panic when they reach past the end of data.
ParsedAt(data, family, idx, n) ==
    IF idx + n + 2 > Len(data)
    THEN [err |-> FALSE, panic |-> TRUE, dest |-> NoDestination, remaining |-> <<>>]
    ELSE [err |-> FALSE, panic |-> FALSE,
          dest |-> [family |-> family,
                    addr |-> IF family = "ip"
                             THEN IPAddress(SubSeq(data, idx + 1, idx + n))
                             ELSE SubSeq(data, idx + 1, idx + n),
                    port |-> GetBE(SubSeq(data, idx + n + 1, idx + n + 2))],
          remaining |-> SubSeq(data, idx + n + 3, Len(data))]

ParseFailed ==
    [err |-> TRUE, panic |-> FALSE, dest |-> NoDestination, remaining |-> <<>>]

\* Mutant: the domain branch does not count the two bytes of the port.
parseDestination_NoPortCheck(data) ==
    IF Len(data) < 4 THEN ParseFailed
    ELSE IF data[1] = 1
    THEN (IF Len(data) < 1 + 4 + 2 THEN ParseFailed ELSE ParsedAt(data, "ip", 1, 4))
    ELSE IF data[1] = 2
    THEN (IF Len(data) < 1 + 1 THEN ParseFailed
          ELSE IF Len(data) < 2 + data[2] THEN ParseFailed
          ELSE ParsedAt(data, "domain", 2, data[2]))
    ELSE IF data[1] = 3
    THEN (IF Len(data) < 1 + 16 + 2 THEN ParseFailed ELSE ParsedAt(data, "ip", 1, 16))
    ELSE ParseFailed

\* Mutant: a type byte that is none of the three is read as IPv4.
parseDestination_AnyType(data) ==
    IF Len(data) < 4 THEN ParseFailed
    ELSE IF data[1] = 2
    THEN (IF Len(data) < 1 + 1 THEN ParseFailed
          ELSE IF Len(data) < 2 + data[2] + 2 THEN ParseFailed
          ELSE ParsedAt(data, "domain", 2, data[2]))
    ELSE IF data[1] = 3
    THEN (IF Len(data) < 1 + 16 + 2 THEN ParseFailed ELSE ParsedAt(data, "ip", 1, 16))
    ELSE (IF Len(data) < 1 + 4 + 2 THEN ParseFailed ELSE ParsedAt(data, "ip", 1, 4))

\* parseDestination(data): the destination and the remaining payload.
parseDestination(data) ==
    IF Len(data) < 4 THEN ParseFailed
    ELSE IF data[1] = 1
    THEN (IF Len(data) < 1 + 4 + 2 THEN ParseFailed ELSE ParsedAt(data, "ip", 1, 4))
    ELSE IF data[1] = 2
    THEN (IF Len(data) < 1 + 1 THEN ParseFailed
          ELSE IF Len(data) < 2 + data[2] + 2 THEN ParseFailed
          ELSE ParsedAt(data, "domain", 2, data[2]))
    ELSE IF data[1] = 3
    THEN (IF Len(data) < 1 + 16 + 2 THEN ParseFailed ELSE ParsedAt(data, "ip", 1, 16))
    ELSE ParseFailed

(***************************************************************************)
(* The inbound handler (inbound.go) and its clients                        *)
(***************************************************************************)
\* h.clientEntries: one entry whose ID does not parse, two that do.
ClientEntries ==
    << [ID |-> <<>>, Policy |-> "youtube"],
       [ID |-> UuidBytes(1), Policy |-> "youtube"],
       [ID |-> UuidBytes(2), Policy |-> ""] >>

\* The user ids clients present: the two configured ones and a foreign one.
ClientUuids == {UuidBytes(1), UuidBytes(2), UuidBytes(9)}

PrivKeys == 1 .. NumPriv

\* The public keys clients present: generated ones, and the all-zero point
\* (sent by a client that is not an outbound handler).
ClientPub(priv) ==
    IF priv = 0 THEN Zero32 ELSE GenerateKeyPair(priv).publicKey

\* The handshake nonces clients draw: 16 bytes.
NonceBytes(prefix, suffix) == PutBE(prefix, 8) \o PutBE(suffix, 8)
ClientNonces ==
    {NonceBytes(a, a + 1) : a \in 1 .. NumPrefixes}

\* The timestamps clients present, by the server's clock: now, just past
\* the window, and half the integer range away.
ClientTimestamps(now) ==
    {now, now - (MaxTimestampDrift + 1), Wrap(now + Pow2(IntBits - 1))}

\* What a client that is no outbound handler sends after its handshake.
Tails == {<<>>, <<7, 7>>}

\* What a prober sends: nothing, "GE", "GET /", a part of the magic, and
\* the magic with two more bytes.
ProbeStreams ==
    {<<>>, <<71, 69>>, <<71, 69, 84, 32, 47>>,
     SubSeq(MagicBytes, 1, 3), MagicBytes \o <<1, 2>>}

\* How many bytes of its stream a client sends at once before the rest.
FirstCuts(stream) ==
    {k \in {2, 4, Len(stream)} : k <= Len(stream)}

\* What the fallback origin answers.
OriginAnswers == {<<>>, <<72, 84>>}

\* The first frames an authenticated client sends: a destination alone, a
\* destination with payload, an empty DATA frame, a CLOSE frame, a DATA frame
\* that holds no destination.
FirstFrames ==
    { [type |-> FrameTypeData,
       bytes |-> marshalDestination(
                    [family |-> "ip", addr |-> <<10, 0, 0, 1>>, port |-> 80])],
      [type |-> FrameTypeData,
       bytes |-> marshalDestination(
                    [family |-> "domain", addr |-> <<97, 46, 98>>, port |-> 443])
                 \o <<5, 6>>],
      [type |-> FrameTypeData, bytes |-> <<>>],
      [type |-> FrameTypeClose, bytes |-> <<>>],
      [type |-> FrameTypeData, bytes |-> <<9, 10, 0, 0, 1, 0, 80>>] }

NoKey == [ikm |-> <<>>, salt |-> <<>>, info |-> ""]
NoClient == [outbound |-> FALSE, priv |-> 0, nonce |-> <<>>]

\* The state of a connection that was just accepted, before any byte.
FreshConn ==
    /\ outcome = ""
    /\ rbuf = <<>>
    /\ cout = <<>>
    /\ peekErr = FALSE
    /\ hs = NoHandshake
    /\ hsParsed = FALSE
    /\ recorded = FALSE
    /\ entry = <<>>
    /\ fbWhy = ""
    /\ fbDialed = FALSE
    /\ fbIn = <<>>
    /\ fbOut = <<>>
    /\ serverKey = NoKey
    /\ dispatched = FALSE
    /\ clientKey = NoKey
    /\ sess = [p \in Peers |-> NewSession(NoKey)]
    /\ wire = [p \in Peers |-> <<>>]
    /\ wrote = [p \in Peers |-> <<>>]
    /\ got = [p \in Peers |-> <<>>]
    /\ readErr = [p \in Peers |-> FALSE]
    /\ sealLog = {}

\* New(ctx, config): the handler, with its tracker, before any connection.
ConnInit ==
    /\ fallback \in BOOLEAN
    /\ clock = NowBase
    /\ NewNonceTracker(TrackerEntries)
    /\ conns = 0
    /\ pc = "accept"
    /\ sent = <<>>
    /\ cpending = <<>>
    /\ cin = <<>>
    /\ cli = NoClient
    /\ FreshConn

ConnIdle ==
    /\ fallback = FALSE
    /\ clock = 0
    /\ conns = 0
    /\ pc = "off"
    /\ outcome = ""
    /\ sent = <<>>
    /\ cpending = <<>>
    /\ cin = <<>>
    /\ rbuf = <<>>
    /\ cout = <<>>
    /\ peekErr = FALSE
    /\ hs = NoHandshake
    /\ hsParsed = FALSE
    /\ recorded = FALSE
    /\ entry = <<>>
    /\ fbWhy = ""
    /\ fbDialed = FALSE
    /\ fbIn = <<>>
    /\ fbOut = <<>>
    /\ serverKey = NoKey
    /\ dispatched = FALSE
    /\ cli = NoClient
    /\ clientKey = NoKey

trackerHist == <<calls, lastNonce, lastResult, accepts, clearedAt, sizeAt, others>>
handlerCfg == <<fallback, clock>>

\* A connection is accepted; its client has decided what it will send and
\* has sent the first part of it.
Open(stream, k, c) ==
    /\ pc = "accept"
    /\ conns < MaxConns
    /\ conns' = conns + 1
    /\ pc' = "peek"
    /\ sent' = stream
    /\ cin' = SubSeq(stream, 1, k)
    /\ cpending' = SubSeq(stream, k + 1, Len(stream))
    /\ cli' = c
    /\ UNCHANGED <<seen, max, trackerHist, restVars, sessVars, handlerCfg,
                   outcome, rbuf, cout, peekErr, hs, hsParsed, recorded, entry,
                   fbWhy, fbDialed, fbIn, fbOut, serverKey, dispatched,
                   clientKey>>

\* A prober connects.
AcceptProbe ==
    \E stream \in ProbeStreams : \E k \in FirstCuts(stream) \cup {Len(stream)} :
        Open(stream, k, NoClient)

\* The clients that write a client handshake, with the handler's clock at
\* NowBase: an outbound handler (outbound Process up to conn.Write of the
\* handshake) when it holds the private key and sends nothing after it, any
\* other program otherwise.
ClientHellos ==
    { [stream |-> MarshalClientHandshake(
                      [PublicKey |-> ClientPub(priv), UserID |-> uid,
                       Timestamp |-> ts, Nonce |-> nonce]) \o tail,
       cli |-> [outbound |-> priv > 0 /\ tail = <<>>,
                priv |-> priv, nonce |-> nonce]] :
        priv \in 0 .. NumPriv, uid \in ClientUuids, nonce \in ClientNonces,
        ts \in ClientTimestamps(NowBase), tail \in Tails }

\* A client that writes a client handshake connects.
AcceptHandshake ==
    /\ clock = NowBase
    /\ \E h \in ClientHellos : \E k \in FirstCuts(h.stream) \ {2} :
          Open(h.stream, k, h.cli)

connRest == <<seen, max, trackerHist, restVars, sessVars, handlerCfg, conns, cli>>

\* The client sends the rest of its bytes.
ClientSend ==
    /\ pc \notin {"accept", "closed", "off"}
    /\ cpending # <<>>
    /\ cin' = cin \o cpending
    /\ cpending' = <<>>
    /\ UNCHANGED <<connRest, pc, outcome, sent, rbuf, cout, peekErr, hs,
                   hsParsed, recorded, entry, fbWhy, fbDialed, fbIn, fbOut,
                   serverKey, dispatched, clientKey>>

\* Process returns err without having called handleFallback.
Fatal ==
    /\ pc' = "closed"
    /\ outcome' = "fatal"

\* Process calls handleFallback from the branch `why`.
ToFallback(why) ==
    /\ pc' = "dial"
    /\ fbWhy' = why
    /\ outcome' = outcome

\* reader.Peek(4) and the magic test (inbound.go:105-122). The bufio.Reader
\* takes what the socket holds; with fewer than four bytes by the deadline
\* (or the end of the stream) Peek fails and the bytes stay buffered.
Peek ==
    /\ pc = "peek"
    /\ rbuf' = rbuf \o cin
    /\ cin' = <<>>
    /\ peekErr' = (Len(rbuf') < 4)
    /\ IF peekErr' \/ GetBE(SubSeq(rbuf', 1, 4)) # ReflexMagic
       THEN IF fallback
            THEN ToFallback(IF peekErr' THEN "peek" ELSE "magic")
            ELSE Fatal /\ fbWhy' = fbWhy
       ELSE pc' = "readhs" /\ outcome' = outcome /\ fbWhy' = fbWhy
    /\ UNCHANGED <<connRest, sent, cpending, cout, hs, hsParsed, recorded,
                   entry, fbDialed, fbIn, fbOut, serverKey, dispatched,
                   clientKey>>

\* io.ReadFull(reader, hsData) and UnmarshalClientHandshake
\* (inbound.go:125-136). ReadFull fails when fewer than 76 bytes came by
\* the deadline; what it read is lost with hsData.
ReadHandshake ==
    /\ pc = "readhs"
    /\ LET avail == rbuf \o cin
           hsData == SubSeq(avail, 1, HandshakeHeaderSize)
           u == UnmarshalClientHandshake(hsData)
       IN  IF Len(avail) < HandshakeHeaderSize
           THEN /\ Fatal
                /\ rbuf' = <<>>
                /\ cin' = <<>>
                /\ UNCHANGED <<hs, hsParsed, recorded, fbWhy>>
           ELSE /\ rbuf' = SubSeq(avail, HandshakeHeaderSize + 1, Len(avail))
                /\ cin' = <<>>
                /\ IF u.err
                   THEN /\ IF fallback THEN ToFallback("parse")
                                       ELSE Fatal /\ fbWhy' = fbWhy
                        /\ UNCHANGED <<hs, hsParsed, recorded>>
                   ELSE /\ hs' = u.hs
                        /\ hsParsed' = TRUE
                        /\ recorded' = (GetBE(SubSeq(u.hs.Nonce, 1, 8)) \in seen)
                        /\ pc' = "validate"
                        /\ UNCHANGED <<outcome, fbWhy>>
    /\ UNCHANGED <<connRest, sent, cpending, cout, peekErr, entry, fbDialed,
                   fbIn, fbOut, serverKey, dispatched, clientKey>>

\* ValidateTimestamp, nonceTracker.Check and AuthenticateUser, in this order
\* (inbound.go:138-156).
Validate ==
    /\ pc = "validate"
    /\ LET nonceVal == GetBE(SubSeq(hs.Nonce, 1, 8))
           found == AuthenticateUser(hs.UserID, ClientEntries)
       IN  IF ~ValidateTimestamp(clock, hs.Timestamp)
           THEN Fatal /\ UNCHANGED <<seen, entry, fbWhy>>
           ELSE /\ seen' = CheckSeen(seen, max, nonceVal)
                /\ IF ~CheckResult(seen, nonceVal)
                   THEN Fatal /\ UNCHANGED <<entry, fbWhy>>
                   ELSE IF found = <<>>
                   THEN /\ IF fallback THEN ToFallback("auth")
                                       ELSE Fatal /\ fbWhy' = fbWhy
                        /\ UNCHANGED entry
                   ELSE /\ entry' = found
                        /\ pc' = "reply"
                        /\ UNCHANGED <<outcome, fbWhy>>
    /\ UNCHANGED <<max, trackerHist, restVars, sessVars, handlerCfg, conns, cli,
                   sent, cpending, cin, rbuf, cout, peekErr, hs, hsParsed,
                   recorded, fbDialed, fbIn, fbOut, serverKey, dispatched,
                   clientKey>>

\* Mutant: the server salts with the eight nonce bytes the tracker uses.
ServerSessionKey_Prefix(secret, clientHS) ==
    DeriveSessionKey(secret, SubSeq(clientHS.Nonce, 1, 8))

\* sessionKey of the inbound handler:
\* DeriveSessionKey(sharedSecret, clientHS.Nonce[:])
ServerSessionKey(secret, clientHS) == DeriveSessionKey(secret, clientHS.Nonce)

\* GenerateKeyPair, DeriveSharedSecret, DeriveSessionKey, the write of the
\* server handshake and NewSession (inbound.go:158-192).
Reply(priv) ==
    /\ pc = "reply"
    /\ LET kp == GenerateKeyPair(priv)
           shared == DeriveSharedSecret(kp.privateKey, hs.PublicKey)
           key == ServerSessionKey(shared.out, hs)
       IN  IF shared.err
           THEN Fatal /\ UNCHANGED <<cout, serverKey, sess>>
           ELSE /\ cout' = cout \o MarshalServerHandshake(kp.publicKey)
                /\ serverKey' = key
                /\ sess' = [sess EXCEPT !["server"] = NewSession(key)]
                /\ pc' = "first"
                /\ UNCHANGED outcome
    /\ UNCHANGED <<seen, max, trackerHist, restVars, handlerCfg, conns, cli,
                   wire, wrote, got, readErr, sealLog,
                   sent, cpending, cin, rbuf, peekErr, hs, hsParsed, recorded,
                   entry, fbWhy, fbDialed, fbIn, fbOut, dispatched, clientKey>>

ServerReply == \E priv \in PrivKeys : Reply(priv)

relayRest == <<connRest, sent, cpending, peekErr, hs, hsParsed, recorded,
               entry, fbWhy, serverKey, dispatched, clientKey>>

\* handleFallback up to the dial (inbound.go:348-360): DialSystem connects
\* to the origin, which has an answer ready, or fails.
FallbackDial ==
    /\ pc = "dial"
    /\ fbDialed' = TRUE
    /\ \/ /\ pc' = "relay"
          /\ fbOut' \in OriginAnswers
          /\ UNCHANGED outcome
       \/ /\ Fatal
          /\ UNCHANGED fbOut
    /\ UNCHANGED <<relayRest, cin, rbuf, cout, fbIn>>

\* Mutant: the copy reads the connection, not the buffered reader.
WrappedRead_Unbuffered(buffered, socket) ==
    [data |-> socket, buffered |-> <<>>, socket |-> <<>>]

\* preloadedConn.Read: bufio.Reader.Read hands out what it has buffered,
\* and reads the connection only when it holds nothing.
WrappedRead(buffered, socket) ==
    IF buffered # <<>>
    THEN [data |-> buffered, buffered |-> <<>>, socket |-> socket]
    ELSE [data |-> socket, buffered |-> <<>>, socket |-> <<>>]

\* postRequest: one round of io.Copy(fbConn, wrapped).
RelayUp ==
    /\ pc = "relay"
    /\ rbuf \o cin # <<>>
    /\ LET r == WrappedRead(rbuf, cin) IN
         /\ fbIn' = fbIn \o r.data
         /\ rbuf' = r.buffered
         /\ cin' = r.socket
    /\ UNCHANGED <<relayRest, pc, outcome, cout, fbDialed, fbOut>>

\* getResponse: one round of io.Copy(conn, fbConn).
RelayDown ==
    /\ pc = "relay"
    /\ fbOut # <<>>
    /\ cout' = cout \o fbOut
    /\ fbOut' = <<>>
    /\ UNCHANGED <<relayRest, pc, outcome, cin, rbuf, fbDialed, fbIn>>

\* Both copies have moved everything and the client closes: task.Run returns.
RelayEnd ==
    /\ pc = "relay"
    /\ cpending = <<>> /\ cin = <<>> /\ rbuf = <<>> /\ fbOut = <<>>
    /\ pc' = "closed"
    /\ outcome' = "fallback"
    /\ UNCHANGED <<relayRest, cin, rbuf, cout, fbDialed, fbIn, fbOut>>

\* The outbound handler reads the server handshake and derives its session
\* key (outbound Process: io.ReadFull(conn, serverHSData) .. NewSession).
ClientDerive ==
    /\ cli.outbound
    /\ clientKey = NoKey
    /\ pc \in {"first", "pump"}
    /\ Len(cout) >= ServerHandshakeSize
    /\ LET serverHS == UnmarshalServerHandshake(SubSeq(cout, 1, ServerHandshakeSize))
           shared == DeriveSharedSecret(cli.priv, serverHS.PublicKey)
           key == DeriveSessionKey(shared.out, cli.nonce)
       IN  /\ ~serverHS.err /\ ~shared.err
           /\ clientKey' = key
           /\ sess' = [sess EXCEPT !["client"] = NewSession(key)]
    /\ UNCHANGED <<seen, max, trackerHist, restVars, handlerCfg, conns, cli,
                   wire, wrote, got, readErr, sealLog, pc, outcome,
                   sent, cpending, cin, rbuf, cout, peekErr, hs, hsParsed,
                   recorded, entry, fbWhy, fbDialed, fbIn, fbOut, serverKey,
                   dispatched>>

\* The client writes its first frame (outbound postRequest:
\* sess.WriteFrame(conn, FrameTypeData, firstFrame)).
ClientFirstFrame ==
    /\ clientKey # NoKey
    /\ pc = "first"
    /\ wrote["client"] = <<>>
    /\ \E f \in FirstFrames :
          WriteFrame("client", f.type, [size |-> Len(f.bytes), id |-> f.bytes])
    /\ UNCHANGED <<trackerVars, restVars, connVars>>

\* handleSession up to the dispatch (inbound.go:188-226): the first frame
\* is read, must be a DATA frame with a payload that starts with a
\* destination, and the destination is dispatched. When the client closes
\* without having written a frame, ReadFrame fails on the header.
FirstFrame ==
    /\ pc = "first"
    /\ \/ /\ CanRead(wire["client"])
          /\ LET r == ReadFrameOn(sess["server"], wire["client"])
                 d == parseDestination(r.payload.id)
             IN  /\ wire' = [wire EXCEPT !["client"] = r.rest]
                 /\ sess' = [sess EXCEPT !["server"] = r.sess]
                 /\ readErr' = [readErr EXCEPT !["server"] = r.err]
                 /\ got' = IF r.err THEN got
                           ELSE [got EXCEPT !["server"] =
                                   Append(@, [type |-> r.type,
                                              data |-> r.payload])]
                 /\ IF r.err \/ r.type # FrameTypeData
                          \/ r.payload.size = 0 \/ d.err
                    THEN Fatal /\ UNCHANGED dispatched
                    ELSE /\ dispatched' = TRUE
                         /\ pc' = "pump"
                         /\ UNCHANGED outcome
       \/ /\ wrote["client"] = <<>>
          /\ cpending = <<>>
          /\ readErr' = [readErr EXCEPT !["server"] = TRUE]
          /\ Fatal
          /\ UNCHANGED <<wire, sess, got, dispatched>>
    /\ UNCHANGED <<seen, max, trackerHist, restVars, handlerCfg, conns, cli,
                   wrote, sealLog, sent, cpending, cin, rbuf, cout, peekErr,
                   hs, hsParsed, recorded, entry, fbWhy, fbDialed, fbIn, fbOut,
                   serverKey, clientKey>>

\* The two pumps of handleSession run and end (inbound.go:228-297).
SessionEnd ==
    /\ pc = "pump"
    /\ pc' = "closed"
    /\ outcome' = "session"
    /\ UNCHANGED <<connRest, sent, cpending, cin, rbuf, cout, peekErr, hs,
                   hsParsed, recorded, entry, fbWhy, fbDialed, fbIn, fbOut,
                   serverKey, dispatched, clientKey>>

\* Process has returned; the handler serves the next connection.
Listen ==
    /\ pc = "closed"
    /\ conns < MaxConns
    /\ pc' = "accept"
    /\ sent' = <<>>
    /\ cpending' = <<>>
    /\ cin' = <<>>
    /\ cli' = NoClient
    /\ outcome' = ""
    /\ rbuf' = <<>>
    /\ cout' = <<>>
    /\ peekErr' = FALSE
    /\ hs' = NoHandshake
    /\ hsParsed' = FALSE
    /\ recorded' = FALSE
    /\ entry' = <<>>
    /\ fbWhy' = ""
    /\ fbDialed' = FALSE
    /\ fbIn' = <<>>
    /\ fbOut' = <<>>
    /\ serverKey' = NoKey
    /\ dispatched' = FALSE
    /\ clientKey' = NoKey
    /\ sess' = [p \in Peers |-> NewSession(NoKey)]
    /\ wire' = [p \in Peers |-> <<>>]
    /\ wrote' = [p \in Peers |-> <<>>]
    /\ got' = [p \in Peers |-> <<>>]
    /\ readErr' = [p \in Peers |-> FALSE]
    /\ sealLog' = {}
    /\ UNCHANGED <<seen, max, trackerHist, restVars, handlerCfg, conns>>

ConnNext ==
    \/ Listen
    \/ AcceptProbe
    \/ AcceptHandshake
    \/ ClientSend
    \/ Peek
    \/ ReadHandshake
    \/ Validate
    \/ ServerReply
    \/ FallbackDial
    \/ RelayUp
    \/ RelayDown
    \/ RelayEnd
    \/ ClientDerive
    \/ ClientFirstFrame
    \/ FirstFrame
    \/ SessionEnd

(***************************************************************************)
(* Claims about NonceTracker (checked under SpecTracker)                   *)
(***************************************************************************)
\* A step that is one Check call.
IsCheck == calls' = calls + 1

\* C6 (as stated): once Check(n) returned true, a later Check(n) returns
\* false as long as fewer than `capacity` distinct other nonces were
\* inserted since that call.
C6_AsStated ==
    [][(IsCheck /\ sizeAt[lastNonce'] > 0
          /\ Cardinality(others[lastNonce']) < max)
        => lastResult' = FALSE]_vars

\* C6 (amended): once Check(n) returned true with the set then holding k
\* nonces (n included), a later Check(n) returns false as long as at most
\* capacity - k distinct other nonces were inserted since that call.
C6_NoReplayBeforeOverflow ==
    [][(IsCheck /\ sizeAt[lastNonce'] > 0
          /\ sizeAt[lastNonce'] + Cardinality(others[lastNonce']) <= max)
        => lastResult' = FALSE]_vars

\* C6 witness: a nonce accepted earlier, with other nonces accepted since and
\* the set not yet overflowed, was presented again and rejected.
C6_Witness ==
    /\ lastNonce \in Nonces
    /\ lastResult = FALSE
    /\ others[lastNonce] # {}
    /\ sizeAt[lastNonce] + Cardinality(others[lastNonce]) <= max

\* The first `capacity` nonces accepted by a tracker that started empty.
Originals == {accepts[i] : i \in 1 .. max}

C7_State ==
    /\ \A i \in 1 .. Len(accepts) : i <= max => i \notin clearedAt
    /\ Len(accepts) >= max + 1 => (max + 1) \in clearedAt
    /\ Len(accepts) = max + 1 => seen = {accepts[max + 1]}

C7_Step ==
    (/\ IsCheck
     /\ Len(accepts) >= max + 1
     /\ lastNonce' \in Originals
     /\ lastNonce' \notin {accepts[j] : j \in (max + 2) .. Len(accepts)})
    => lastResult' = TRUE

\* C7: on a tracker of capacity C that starts empty, the first C distinct
\* nonces are accepted without clearing the set, the (C+1)-th accepted nonce
\* clears it so that it holds only that nonce, and each of the C original
\* nonces is accepted again when it is next presented.
C7_EvictionAtCapacity == [][C7_State' /\ C7_Step]_vars

\* C7 witness: C+1 nonces were accepted and then all C originals again.
C7_Witness ==
    /\ Len(accepts) >= 2 * max + 1
    /\ {accepts[j] : j \in (max + 2) .. (2 * max + 1)} = Originals

\* C8: Check(n) returns false exactly when n is in the seen-set at the time
\* of the call, and then leaves the set unchanged; otherwise it returns true
\* and n is in the set when the call returns.
C8_CheckContract ==
    [][IsCheck =>
        /\ (lastResult' = FALSE) <=> (lastNonce' \in seen)
        /\ (lastResult' = FALSE) => (seen' = seen)
        /\ (lastResult' = TRUE) => (lastNonce' \in seen')]_vars

\* C8 witness: a call was rejected after another one was accepted.
C8_Witness ==
    /\ calls >= 2
    /\ lastResult = FALSE
    /\ lastNonce \in seen
    /\ Len(accepts) >= 1

(***************************************************************************)
(* Claims about the Sessions of one connection (checked under SpecSession) *)
(***************************************************************************)
\* C1: across all frames sealed under the session key of one connection, by
\* the client and by the server together, no two frames are sealed with the
\* same 12-byte nonce.
C1_NoNonceReuse ==
    \A a, b \in sealLog : (a # b /\ a.key = b.key) => a.nonce # b.nonce

\* The frames peer p wrote all carry a plaintext within the frame limit.
WithinLimit(p) ==
    \A k \in 1 .. Len(wrote[p]) : wrote[p][k].data.size <= MaxFramePayload

\* C2: for two Sessions freshly created from the same key and a transport
\* that delivers bytes in order, no ReadFrame fails and the k-th ReadFrame
\* on the peer returns the type and the plaintext of the k-th WriteFrame.
C2_FramesInOrder ==
    \A p \in Peers : WithinLimit(p) =>
        /\ ~readErr[Other(p)]
        /\ Len(got[Other(p)]) <= Len(wrote[p])
        /\ \A k \in 1 .. Len(got[Other(p)]) :
              /\ got[Other(p)][k].type = wrote[p][k].type
              /\ got[Other(p)][k].data = wrote[p][k].data

\* C2 witness: the server read three frames in a row, of different types,
\* one with an empty and one with a full-size plaintext.
C2_Witness ==
    /\ Len(got["server"]) >= 3
    /\ got["server"][1].type # got["server"][2].type
    /\ got["server"][2].data.size = MaxFramePayload
    /\ got["server"][3].data.size = 0

(***************************************************************************)
(* Claims about ValidateTimestamp (checked under SpecTime)                 *)
(***************************************************************************)
\* C10: ValidateTimestamp(ts) returns true if and only if |now - ts| <= 120,
\* for every timestamp of the signed integer type.
C10_WindowIff ==
    tsDone => (tsOut <=> (Abs(tsNow - tsIn) <= MaxTimestampDrift))

(***************************************************************************)
(* Claims about the inbound handler (checked under SpecInbound)            *)
(***************************************************************************)
\* The handshake timestamp lies in the window the specification describes.
InWindow(now, timestamp) == Abs(now - timestamp) <= MaxTimestampDrift

\* Process is past the peek and the magic test.
Classified == pc \notin {"off", "accept", "peek"}

\* The first four bytes were not the magic, or fewer than four came.
NotReflex ==
    peekErr \/ (Len(sent) >= 4 /\ SubSeq(sent, 1, 4) # MagicBytes)

C4_AuthFallbackVerbatim ==
    ( /\ fallback
      /\ hsParsed
      /\ InWindow(clock, hs.Timestamp)
      /\ ~recorded
      /\ AuthenticateUser(hs.UserID, ClientEntries) = <<>>
      /\ outcome = "fallback" )
    => fbIn = sent

\* C5: a handshake whose timestamp is outside the window, or whose nonce the
\* tracker had already recorded, ends the connection as fatal: the fallback
\* is never dialed, no server handshake is written and the dispatcher is
\* never called.
C5_StaleOrReplayIsFatal ==
    (hsParsed /\ (~InWindow(clock, hs.Timestamp) \/ recorded)) =>
        /\ pc \in {"validate", "closed"}
        /\ pc = "closed" => outcome = "fatal"
        /\ ~fbDialed
        /\ cout = <<>>
        /\ ~dispatched

\* C9: in every handshake that the server answers and the client completes,
\* both sides hold the same session key; the server made it from its private
\* key and the client's public key, the client from its private key and the
\* public key in the server handshake, and the salt of both is the client's
\* 16-byte handshake nonce.
C9_SameSessionKey ==
    (clientKey # NoKey /\ serverKey # NoKey) =>
        /\ clientKey = serverKey
        /\ Len(cli.nonce) = 16
        /\ clientKey.salt = SaltOf(cli.nonce)
        /\ serverKey.salt = SaltOf(cli.nonce)
        /\ clientKey.ikm =
              DeriveSharedSecret(cli.priv, SubSeq(cout, 1, 32)).out
        /\ \E priv \in PrivKeys :
              /\ SubSeq(cout, 1, 32) = GenerateKeyPair(priv).publicKey
              /\ serverKey.ikm =
                    DeriveSharedSecret(priv, ClientPub(cli.priv)).out

\* C9 witness: the client completed the handshake the server answered, and
\* the server opened the client's first frame under the key and dispatched.
C9_Witness ==
    /\ clientKey # NoKey
    /\ clientKey = serverKey
    /\ dispatched

\* The bytes of the client that reached the handler.
Delivered == Len(sent) - Len(cpending)

\* C20: with a fallback configured, a connection that begins with the magic
\* and has delivered fewer than 76 bytes when Process returns has been handed
\* to the fallback, not ended as fatal.
C20_ShortHandshakeFallsBack ==
    ( /\ fallback
      /\ pc = "closed"
      /\ Delivered >= 4
      /\ Delivered < HandshakeHeaderSize
      /\ SubSeq(sent, 1, 4) = MagicBytes )
    => (outcome = "fallback" /\ fbDialed)

(***************************************************************************)
(* Frames without a payload (checked under SpecWire)                       *)
(*                                                                         *)
(* SpecWire is SpecSession with a peer that also sends frames whose header *)
(* carries the length 0, which WriteFrame itself never produces: the       *)
(* three header bytes and nothing else.                                    *)
(***************************************************************************)
\* The peer p puts a header with length 0 on its wire.
WriteBareHeader(p, frameType) ==
    /\ FramesWritten < MaxFrames
    /\ wire' = [wire EXCEPT ![p] =
                  Append(@, [kind |-> "hdr", length |-> 0, type |-> frameType])]
    /\ wrote' = [wrote EXCEPT ![p] =
                  Append(@, [type |-> frameType, data |-> EmptyPlain])]
    /\ UNCHANGED <<sess, got, readErr, sealLog>>

WireBare == \E p \in Peers, t \in FrameTypes : WriteBareHeader(p, t)

WireNext ==
    \/ SessWrite /\ UNCHANGED <<trackerVars, restVars, connVars>>
    \/ SessRead /\ UNCHANGED <<trackerVars, restVars, connVars>>
    \/ WireBare /\ UNCHANGED <<trackerVars, restVars, connVars>>

\* The number of bytes an item of the wire takes.
ItemBytes(item) == IF item.kind = "hdr" THEN FrameHeaderSize ELSE item.size

RECURSIVE WireBytes(_)
\* The number of bytes a stream holds.
WireBytes(w) == IF w = <<>> THEN 0 ELSE ItemBytes(Head(w)) + WireBytes(Tail(w))

\* Peer p makes a ReadFrame call in this step.
ReadsNow(p) == got'[p] # got[p] \/ readErr'[p] # readErr[p]

\* A ReadFrame call of p that finds a header with length 0 returns a frame
\* of the header's type with no payload, takes three bytes off the stream
\* and leaves the read counter as it was.
C11_Step ==
    \A p \in Peers :
        LET w == wire[Other(p)] IN
        (ReadsNow(p) /\ w # <<>> /\ w[1].kind = "hdr" /\ w[1].length = 0) =>
            /\ ~readErr'[p]
            /\ got'[p] = Append(got[p], [type |-> w[1].type, data |-> EmptyPlain])
            /\ WireBytes(wire'[Other(p)]) = WireBytes(w) - FrameHeaderSize
            /\ wire'[Other(p)] = Tail(w)
            /\ sess'[p].readNonce = sess[p].readNonce

\* C11: ReadFrame on a header whose length field is 0 returns a frame with
\* that header's type and an empty payload, consumes exactly the 3 header
\* bytes and leaves the read nonce counter unchanged, so that no sealed
\* frame that follows on the stream fails to open.
C11_EmptyFrameKeepsCounter ==
    /\ [][C11_Step]_vars
    /\ [](\A p \in Peers : ~readErr[p])

\* C11 witness: the server has read a frame from a header of length 0 and
\* then opened a sealed frame of full size.
C11_Witness ==
    /\ Len(got["server"]) = 2
    /\ sess["server"].readNonce = 1
    /\ got["server"][1].data = EmptyPlain
    /\ got["server"][2].data.size = MaxFramePayload

(***************************************************************************)
(* Threads on one Session (checked under SpecThreads)                      *)
(*                                                                         *)
(* The client's Session is called by NumWriters threads that write frames  *)
(* and by one thread that reads them; every call goes statement by         *)
(* statement. The server's Session, the peer, writes and reads whole       *)
(* frames. Thread 0 is no thread: a mutex it holds is free.                *)
(***************************************************************************)
Local == "client"
Remote == "server"
Writers == 1 .. NumWriters
ReaderId == NumWriters + 1
Threads == Writers \cup {ReaderId}

\* Mutant: ReadFrame takes the mutex of the write path.
ReadLock_Shared == "writeMu"

\* s.readMu, the mutex ReadFrame takes.
ReadLock == "readMu"

\* s.writeMu, the mutex WriteFrame takes.
WriteLock == "writeMu"

\* Mutant: Lock does not exclude.
LockFree_Always(holder) == TRUE

\* sync.Mutex.Lock returns once no thread holds the mutex.
LockFree(holder) == holder = 0

NoLocals ==
    [type |-> 0, data |-> EmptyPlain, nonce |-> <<>>, hdr |-> <<>>, ct |-> <<>>]

\* NewSession leaves both mutexes unlocked; which key the Session has makes
\* no difference to the threads, so it is one.
ThreadInit ==
    /\ sess = [p \in Peers |-> NewSession(1)]
    /\ wire = [p \in Peers |-> <<>>]
    /\ wrote = [p \in Peers |-> <<>>]
    /\ got = [p \in Peers |-> <<>>]
    /\ readErr = [p \in Peers |-> FALSE]
    /\ sealLog = {}
    /\ mu = [readMu |-> 0, writeMu |-> 0]
    /\ tpc = [t \in Threads |-> "idle"]
    /\ tloc = [t \in Threads |-> NoLocals]
    /\ outLog = <<>>

ThreadIdle ==
    /\ mu = <<>>
    /\ tpc = <<>>
    /\ tloc = <<>>
    /\ outLog = <<>>

\* The frame type the threads write: the response pump and MorphWrite write
\* DATA frames.
CallTypes == {FrameTypeData}

\* The calls of WriteFrame that have begun, on both Sessions.
CallsBegun ==
    FramesWritten + Cardinality({t \in Writers : tpc[t] \in {"lock", "nonce"}})

\* Thread t calls WriteFrame(writer, frameType, data).
WCall(t, frameType, size) ==
    /\ tpc[t] = "idle"
    /\ CallsBegun < MaxFrames
    /\ tpc' = [tpc EXCEPT ![t] = "lock"]
    /\ tloc' = [tloc EXCEPT ![t] =
                  [NoLocals EXCEPT !.type = frameType,
                                   !.data = [size |-> size,
                                             id |-> IF size = 0 THEN <<>>
                                                    ELSE <<t, CallsBegun>>]]]
    /\ UNCHANGED <<mu, outLog, sessVars>>

\* s.writeMu.Lock()
WLock(t) ==
    /\ tpc[t] = "lock"
    /\ LockFree(mu[WriteLock])
    /\ mu' = [mu EXCEPT ![WriteLock] = t]
    /\ tpc' = [tpc EXCEPT ![t] = "nonce"]
    /\ UNCHANGED <<tloc, outLog, sessVars>>

\* nonce := s.nextWriteNonce()
WNonce(t) ==
    /\ tpc[t] = "nonce"
    /\ LET n == nextWriteNonce(sess[Local]) IN
         /\ tloc' = [tloc EXCEPT ![t].nonce = n.nonce]
         /\ sess' = [sess EXCEPT ![Local] = n.sess]
    /\ wrote' = [wrote EXCEPT ![Local] =
                   Append(@, [type |-> tloc[t].type, data |-> tloc[t].data])]
    /\ tpc' = [tpc EXCEPT ![t] = "header"]
    /\ UNCHANGED <<mu, outLog, wire, got, readErr, sealLog>>

\* encrypted := s.aead.Seal(...); writer.Write(header)
WHeader(t) ==
    /\ tpc[t] = "header"
    /\ LET encrypted == Seal(sess[Local].key, tloc[t].nonce, tloc[t].data)
           header == HeaderOf(encrypted, tloc[t].type)
       IN  /\ wire' = [wire EXCEPT ![Local] = Append(@, header)]
           /\ outLog' = Append(outLog, header)
           /\ tloc' = [tloc EXCEPT ![t].ct = <<encrypted>>]
           /\ sealLog' = sealLog \cup
                 {[key |-> sess[Local].key, nonce |-> tloc[t].nonce,
                   by |-> Local, seq |-> GetBE(tloc[t].nonce) + 1]}
    /\ tpc' = [tpc EXCEPT ![t] = "body"]
    /\ UNCHANGED <<mu, sess, wrote, got, readErr>>

\* writer.Write(encrypted)
WBody(t) ==
    /\ tpc[t] = "body"
    /\ wire' = [wire EXCEPT ![Local] = Append(@, tloc[t].ct[1])]
    /\ outLog' = Append(outLog, tloc[t].ct[1])
    /\ tpc' = [tpc EXCEPT ![t] = "unlock"]
    /\ UNCHANGED <<mu, tloc, sess, wrote, got, readErr, sealLog>>

\* defer s.writeMu.Unlock(): WriteFrame returns.
WUnlock(t) ==
    /\ tpc[t] = "unlock"
    /\ mu' = [mu EXCEPT ![WriteLock] = 0]
    /\ tpc' = [tpc EXCEPT ![t] = "idle"]
    /\ tloc' = [tloc EXCEPT ![t] = NoLocals]
    /\ UNCHANGED <<outLog, sessVars>>

\* The reading thread calls ReadFrame(reader); a pump that got an error
\* makes no further call.
RCall ==
    /\ tpc[ReaderId] = "idle"
    /\ ~readErr[Local]
    /\ tpc' = [tpc EXCEPT ![ReaderId] = "lock"]
    /\ UNCHANGED <<mu, tloc, outLog, sessVars>>

\* s.readMu.Lock()
RLock ==
    /\ tpc[ReaderId] = "lock"
    /\ LockFree(mu[ReadLock])
    /\ mu' = [mu EXCEPT ![ReadLock] = ReaderId]
    /\ tpc' = [tpc EXCEPT ![ReaderId] = "hdr"]
    /\ UNCHANGED <<tloc, outLog, sessVars>>

\* io.ReadFull(reader, header) and the test of the length.
RHeader ==
    /\ tpc[ReaderId] = "hdr"
    /\ wire[Remote] # <<>>
    /\ LET item == Head(wire[Remote]) IN
         /\ wire' = [wire EXCEPT ![Remote] = Tail(@)]
         /\ IF item.kind # "hdr"
            THEN /\ readErr' = [readErr EXCEPT ![Local] = TRUE]
                 /\ tpc' = [tpc EXCEPT ![ReaderId] = "unlock"]
                 /\ UNCHANGED <<tloc, got>>
            ELSE IF item.length = 0
            THEN /\ got' = [got EXCEPT ![Local] =
                              Append(@, [type |-> item.type, data |-> EmptyPlain])]
                 /\ tpc' = [tpc EXCEPT ![ReaderId] = "unlock"]
                 /\ UNCHANGED <<tloc, readErr>>
            ELSE /\ tloc' = [tloc EXCEPT ![ReaderId].hdr = <<item>>]
                 /\ tpc' = [tpc EXCEPT ![ReaderId] = "body"]
                 /\ UNCHANGED <<got, readErr>>
    /\ UNCHANGED <<mu, outLog, sess, wrote, sealLog>>

\* io.ReadFull(reader, encryptedPayload)
RBody ==
    /\ tpc[ReaderId] = "body"
    /\ wire[Remote] # <<>>
    /\ tloc' = [tloc EXCEPT ![ReaderId].ct = <<Head(wire[Remote])>>]
    /\ wire' = [wire EXCEPT ![Remote] = Tail(@)]
    /\ tpc' = [tpc EXCEPT ![ReaderId] = "nonce"]
    /\ UNCHANGED <<mu, outLog, sess, wrote, got, readErr, sealLog>>

\* nonce := s.nextReadNonce()
RNonce ==
    /\ tpc[ReaderId] = "nonce"
    /\ LET n == nextReadNonce(sess[Local]) IN
         /\ tloc' = [tloc EXCEPT ![ReaderId].nonce = n.nonce]
         /\ sess' = [sess EXCEPT ![Local] = n.sess]
    /\ tpc' = [tpc EXCEPT ![ReaderId] = "open"]
    /\ UNCHANGED <<mu, outLog, wire, wrote, got, readErr, sealLog>>

\* payload, err := s.aead.Open(nil, nonce, encryptedPayload, nil)
ROpen ==
    /\ tpc[ReaderId] = "open"
    /\ LET l == tloc[ReaderId] IN
         IF OpenOk(sess[Local].key, l.nonce, l.ct[1], l.hdr[1].length)
         THEN /\ got' = [got EXCEPT ![Local] =
                           Append(@, [type |-> l.hdr[1].type, data |-> l.ct[1].pt])]
              /\ UNCHANGED readErr
         ELSE /\ readErr' = [readErr EXCEPT ![Local] = TRUE]
              /\ UNCHANGED got
    /\ tpc' = [tpc EXCEPT ![ReaderId] = "unlock"]
    /\ UNCHANGED <<mu, tloc, outLog, sess, wire, wrote, sealLog>>

\* defer s.readMu.Unlock(): ReadFrame returns.
RUnlock ==
    /\ tpc[ReaderId] = "unlock"
    /\ mu' = [mu EXCEPT ![ReadLock] = 0]
    /\ tpc' = [tpc EXCEPT ![ReaderId] = "idle"]
    /\ tloc' = [tloc EXCEPT ![ReaderId] = NoLocals]
    /\ UNCHANGED <<outLog, sessVars>>

WriterStep ==
    \E t \in Writers :
        \/ \E ft \in CallTypes, n \in PlainSizes : WCall(t, ft, n)
        \/ WLock(t)
        \/ WNonce(t)
        \/ WHeader(t)
        \/ WBody(t)
        \/ WUnlock(t)

ReaderStep == RCall \/ RLock \/ RHeader \/ RBody \/ RNonce \/ ROpen \/ RUnlock

\* The peer writes a frame.
PeerWrite ==
    /\ CallsBegun < MaxFrames
    /\ \E n \in PlainSizes :
          WriteFrame(Remote, FrameTypeData, NextData(Remote, n))
    /\ UNCHANGED threadVars

\* The peer reads a frame.
PeerRead == ReadFrame(Remote) /\ UNCHANGED threadVars

threadRest == <<trackerVars, timeVars, connVars, morphVars, destVars, tunnelVars,
        advVars,
        checkerVars,
        waitVars>>

ThreadNext ==
    \/ WriterStep /\ UNCHANGED threadRest
    \/ ReaderStep /\ UNCHANGED threadRest
    \/ PeerWrite /\ UNCHANGED threadRest
    \/ PeerRead /\ UNCHANGED threadRest

\* Thread t takes a step.
Steps(t) == tpc'[t] # tpc[t]

C12_Step ==
    /\ (\E t \in Writers : Steps(t)) =>
          sess'[Local].readNonce = sess[Local].readNonce
    /\ Steps(ReaderId) =>
          sess'[Local].writeNonce = sess[Local].writeNonce

\* A thread that waits in Lock waits for a thread of its own kind.
C12_NoCrossWait ==
    /\ \A t \in Writers :
          (tpc[t] = "lock" /\ mu[WriteLock] # 0) => mu[WriteLock] \in Writers
    /\ (tpc[ReaderId] = "lock") => mu[ReadLock] = 0

\* C12: with threads calling WriteFrame and a thread calling ReadFrame on
\* the same Session, under every interleaving no step of WriteFrame changes
\* the read counter, no step of ReadFrame changes the write counter, no call
\* waits for the lock of the other path, and no frame fails to open on
\* either side.
C12_IndependentPaths ==
    /\ [][C12_Step]_vars
    /\ [](C12_NoCrossWait /\ \A p \in Peers : ~readErr[p])

\* C12 witness: the reader holds readMu and is about to open a frame of the
\* peer while a writer holds writeMu between its two writes, after the peer
\* has opened a frame of this Session.
C12_Witness ==
    /\ tpc[ReaderId] = "open"
    /\ mu[ReadLock] = ReaderId
    /\ \E t \in Writers : tpc[t] = "body" /\ mu[WriteLock] = t
    /\ got[Remote] # <<>>

\* The frames of which something is on the wire.
FramesOut == (Len(outLog) + 1) \div 2

C13_WholeFrames ==
    \A k \in 1 .. FramesOut :
        /\ outLog[2 * k - 1].kind = "hdr"
        /\ 2 * k <= Len(outLog) =>
              /\ outLog[2 * k].kind = "ct"
              /\ outLog[2 * k].nonce = NonceOf(k - 1)
              /\ outLog[2 * k].pt = wrote[Local][k].data
              /\ outLog[2 * k - 1] = HeaderOf(outLog[2 * k], wrote[Local][k].type)

C13_NoNonceTwice ==
    \A i, j \in 1 .. Len(outLog) :
        (i # j /\ outLog[i].kind = "ct" /\ outLog[j].kind = "ct") =>
            outLog[i].nonce # outLog[j].nonce

\* C13: whatever threads call WriteFrame on one Session, the write counter
\* is the number of calls that took a nonce, the i-th frame on the wire is a
\* header followed by its own ciphertext sealed with four zero bytes and the
\* big-endian 64-bit value i - 1, and no two frames have the same nonce.
C13_WriteNonceOrder ==
    /\ sess[Local].writeNonce = Len(wrote[Local])
    /\ FramesOut <= Len(wrote[Local])
    /\ C13_WholeFrames
    /\ C13_NoNonceTwice

\* C13 witness: two whole frames of two different threads are on the wire
\* and a third call waits for writeMu.
C13_Witness ==
    /\ Len(outLog) = 4
    /\ outLog[2].pt.size > 0
    /\ outLog[4].pt.size > 0
    /\ outLog[2].pt.id[1] # outLog[4].pt.id[1]
    /\ \E t \in Writers : tpc[t] = "lock" /\ mu[WriteLock] \notin {0, t}

(***************************************************************************)
(* Traffic morphing (checked under SpecMorph)                              *)
(*                                                                         *)
(* BuiltinProfiles maps a name to a *TrafficProfile; registry holds, for   *)
(* each name, the two cells of that one object that change:                *)
(* nextPacketSize, and nextDelay in nanoseconds. A TrafficMorph holds the  *)
(* pointer, which is the name. The bytes of a MorphWrite input are known   *)
(* by their positions: a plaintext [lo, hi, pad] is data[lo:hi] followed   *)
(* by pad bytes of padding.                                                *)
(***************************************************************************)
MorphConns == 1 .. NumMorphConns
ProfileNames == {"youtube", "http2-api"}
Policies == ProfileNames \cup {"", "nonexistent"}

\* Results of sampleWeighted on the PacketSizes of a profile: a size of the
\* list with a jitter of at most 5%.
sampleWeighted(name) ==
    IF name = "youtube" THEN {61, 1533} ELSE {30, 512}

\* Results of sampleDelayWeighted on the Delays of a profile: a delay of
\* the list with a jitter of at most 20%, in nanoseconds.
sampleDelayWeighted(name) ==
    IF name = "youtube" THEN {800000} ELSE {1600000, 1200000000}

\* A TrafficProfile of the registry as the composite literal leaves it.
FreshCells == [nextPacketSize |-> 0, nextDelay |-> 0]

\* Mutant: an unknown name gets the first profile instead of no morph.
NewTrafficMorph_Default(profileName) ==
    IF profileName = "" THEN <<>>
    ELSE IF profileName \notin ProfileNames
    THEN <<[Profile |-> "youtube", Enabled |-> TRUE]>>
    ELSE <<[Profile |-> profileName, Enabled |-> TRUE]>>

\* NewTrafficMorph(profileName): the empty sequence stands for nil, and so
\* does the empty name in the Profile field.
NewTrafficMorph(profileName) ==
    IF profileName = "" THEN <<>>
    ELSE IF profileName \notin ProfileNames THEN <<>>
    ELSE <<[Profile |-> profileName, Enabled |-> TRUE]>>

\* p.GetPacketSize(): the outcomes, each the size returned and the cells
\* of p afterwards.
GetPacketSize(name, cells) ==
    IF cells.nextPacketSize > 0
    THEN {[size |-> cells.nextPacketSize,
           cells |-> [cells EXCEPT !.nextPacketSize = 0]]}
    ELSE {[size |-> s, cells |-> cells] : s \in sampleWeighted(name)}

\* p.GetDelay()
GetDelay(name, cells) ==
    IF cells.nextDelay > 0
    THEN {[delay |-> cells.nextDelay, cells |-> [cells EXCEPT !.nextDelay = 0]]}
    ELSE {[delay |-> d, cells |-> cells] : d \in sampleDelayWeighted(name)}

\* EncodePaddingControl(targetSize)
EncodePaddingControl(targetSize) == PutBE(targetSize % 65536, 2)

\* EncodeTimingControl(delay): delay.Milliseconds() in eight bytes.
EncodeTimingControl(delay) == PutBE(delay \div Millisecond, 8)

\* HandleControlFrame(frame, profile): the cells of profile afterwards.
HandleControlFrame(frame, cells) ==
    IF frame.Type = FrameTypePadding /\ Len(frame.Payload) >= 2
    THEN [cells EXCEPT !.nextPacketSize = GetBE(SubSeq(frame.Payload, 1, 2))]
    ELSE IF frame.Type = FrameTypeTiming /\ Len(frame.Payload) >= 8
    THEN [cells EXCEPT !.nextDelay = GetBE(SubSeq(frame.Payload, 1, 8)) * Millisecond]
    ELSE cells

\* The number of bytes AddPadding(data, targetSize) appends to len bytes.
AddPadding(len, targetSize) == IF len >= targetSize THEN 0 ELSE targetSize - len

\* Mutant: the chunk leaves no room for the tag of the AEAD.
ChunkSize_NoOverhead(targetSize) ==
    LET chunkSize == targetSize - FrameHeaderSize
        positive == IF chunkSize <= 0 THEN targetSize ELSE chunkSize
    IN  IF positive > MaxFramePayload THEN MaxFramePayload ELSE positive

\* Mutant: a chunk size that is not positive stays as it is.
ChunkSize_NoFloor(targetSize) ==
    LET chunkSize == targetSize - AeadOverhead - FrameHeaderSize
    IN  IF chunkSize > MaxFramePayload THEN MaxFramePayload ELSE chunkSize

\* MorphWrite: the size of the plaintext chunk for a target size.
ChunkSize(targetSize) ==
    LET chunkSize == targetSize - AeadOverhead - FrameHeaderSize
        positive == IF chunkSize <= 0 THEN targetSize ELSE chunkSize
    IN  IF positive > MaxFramePayload THEN MaxFramePayload ELSE positive

\* Mutant: the split loses the byte after the chunk.
NextChunk_SkipByte(rest, chunkSize) ==
    IF rest.hi - rest.lo <= chunkSize
    THEN [chunk |-> [lo |-> rest.lo, hi |-> rest.hi,
                     pad |-> AddPadding(rest.hi - rest.lo, chunkSize)],
          rest |-> [lo |-> rest.hi, hi |-> rest.hi]]
    ELSE [chunk |-> [lo |-> rest.lo, hi |-> rest.lo + chunkSize, pad |-> 0],
          rest |-> [lo |-> rest.lo + chunkSize + 1, hi |-> rest.hi]]

\* MorphWrite: the chunk of one round of the loop and the data left.
NextChunk(rest, chunkSize) ==
    IF rest.hi - rest.lo <= chunkSize
    THEN [chunk |-> [lo |-> rest.lo, hi |-> rest.hi,
                     pad |-> AddPadding(rest.hi - rest.lo, chunkSize)],
          rest |-> [lo |-> rest.hi, hi |-> rest.hi]]
    ELSE [chunk |-> [lo |-> rest.lo, hi |-> rest.lo + chunkSize, pad |-> 0],
          rest |-> [lo |-> rest.lo + chunkSize, hi |-> rest.hi]]

\* Target sizes and delays a peer puts into control frames.
PadTargets == {0, 1, 20, 16403, 65535}
TimingDelays == {0, 20 * Millisecond}

\* Payloads of the control frames a connection receives.
ControlFrames ==
    {[Type |-> FrameTypePadding, Payload |-> EncodePaddingControl(s)] : s \in PadTargets}
    \cup {[Type |-> FrameTypeTiming, Payload |-> EncodeTimingControl(d)] : d \in TimingDelays}
    \cup {[Type |-> FrameTypePadding, Payload |-> <<7>>],
          [Type |-> FrameTypeTiming, Payload |-> <<0, 0, 0, 7>>]}

\* Lengths of the data handed to MorphWrite.
DataLens == {0, 45, 17000}

NoWrite == [active |-> FALSE, n |-> 0, rest |-> [lo |-> 0, hi |-> 0], frames |-> <<>>]
NoRound == [conn |-> 0, targetSize |-> 0, delay |-> 0]
NoWant == [size |-> <<>>, delay |-> <<>>]

MorphInit ==
    /\ registry = [n \in ProfileNames |-> FreshCells]
    /\ morph = [c \in MorphConns |-> <<>>]
    /\ mstage = [c \in MorphConns |-> "new"]
    /\ want = [n \in ProfileNames |-> NoWant]
    /\ mw = [c \in MorphConns |-> NoWrite]
    /\ mlast = NoRound
    /\ nctl = 0
    /\ ctlConn = 0

MorphIdle ==
    /\ registry = <<>>
    /\ morph = <<>>
    /\ mstage = <<>>
    /\ want = <<>>
    /\ mw = <<>>
    /\ mlast = NoRound
    /\ nctl = 0
    /\ ctlConn = 0

\* TrafficMorph values built as composite literals instead of by
\* NewTrafficMorph: a disabled one, and an enabled one without a profile.
LiteralMorphs ==
    {[Profile |-> "youtube", Enabled |-> FALSE], [Profile |-> "", Enabled |-> TRUE]}

\* The MorphWrite loop will run for the buffers of connection c: the
\* handler's test morph != nil && morph.Enabled, and MorphWrite's own test.
Morphing(c) ==
    /\ morph[c] # <<>>
    /\ morph[c][1].Enabled
    /\ ~(~morph[c][1].Enabled \/ morph[c][1].Profile = "")

\* Connection c's morph has a profile: morph != nil && morph.Profile != nil.
HasProfile(c) == morph[c] # <<>> /\ morph[c][1].Profile # ""

\* A connection is given a morph that was built as a literal.
Literal(c, m) ==
    /\ mstage[c] = "new"
    /\ morph' = [morph EXCEPT ![c] = <<m>>]
    /\ mstage' = [mstage EXCEPT ![c] = "session"]
    /\ UNCHANGED <<registry, want, mw, mlast, nctl, ctlConn>>

\* handleSession: morph := reflex.NewTrafficMorph(client.Policy)
Attach(c, policy) ==
    /\ mstage[c] = "new"
    /\ morph' = [morph EXCEPT ![c] = NewTrafficMorph(policy)]
    /\ mstage' = [mstage EXCEPT ![c] = "session"]
    /\ UNCHANGED <<registry, want, mw, mlast, nctl, ctlConn>>

\* requestDone: a PADDING or TIMING frame arrives on connection c.
Control(c, frame) ==
    /\ mstage[c] = "session"
    /\ nctl < MaxControls
    /\ nctl' = nctl + 1
    /\ ctlConn' = c
    /\ IF HasProfile(c)
       THEN LET name == morph[c][1].Profile IN
            /\ registry' = [registry EXCEPT ![name] = HandleControlFrame(frame, @)]
            /\ want' = [want EXCEPT ![name] =
                          IF frame.Type = FrameTypePadding /\ Len(frame.Payload) = 2
                          THEN [@ EXCEPT !.size = <<GetBE(frame.Payload)>>]
                          ELSE IF frame.Type = FrameTypeTiming /\ Len(frame.Payload) = 8
                          THEN [@ EXCEPT !.delay = <<GetBE(frame.Payload) * Millisecond>>]
                          ELSE @]
       ELSE UNCHANGED <<registry, want>>
    /\ UNCHANGED <<morph, mstage, mw, mlast>>

\* responseDone has a buffer of n bytes for connection c: MorphWrite is
\* called and its loop begins, or the buffer goes out in one WriteFrame,
\* by the handler when there is no enabled morph and by MorphWrite when the
\* morph has no profile.
MorphWriteCall(c, n) ==
    /\ mstage[c] = "session"
    /\ ~mw[c].active
    /\ mw[c].frames = <<>>
    /\ Cardinality({d \in MorphConns : mw[d] # NoWrite}) < MaxWrites
    /\ IF Morphing(c)
       THEN mw' = [mw EXCEPT ![c] = [active |-> TRUE, n |-> n,
                                     rest |-> [lo |-> 0, hi |-> n], frames |-> <<>>]]
       ELSE mw' = [mw EXCEPT ![c] =
                     [active |-> FALSE, n |-> n, rest |-> [lo |-> n, hi |-> n],
                      frames |-> <<[type |-> FrameTypeData,
                                    plain |-> [lo |-> 0, hi |-> n, pad |-> 0]]>>]]
    /\ UNCHANGED <<registry, morph, mstage, want, mlast, nctl, ctlConn>>

\* MorphWrite: one round of the loop, or its end.
MorphRound(c) ==
    /\ mw[c].active
    /\ LET name == morph[c][1].Profile
           rest == mw[c].rest
       IN  IF rest.hi - rest.lo > 0
           THEN /\ Len(mw[c].frames) < MaxChunks
                /\ \E gs \in GetPacketSize(name, registry[name]) :
                   \E gd \in GetDelay(name, gs.cells) :
                     LET nc == NextChunk(rest, ChunkSize(gs.size)) IN
                       /\ mw' = [mw EXCEPT ![c].rest = nc.rest,
                                           ![c].frames = Append(@, [type |-> FrameTypeData,
                                                                    plain |-> nc.chunk])]
                       /\ registry' = [registry EXCEPT ![name] = gd.cells]
                       /\ mlast' = [conn |-> c, targetSize |-> gs.size,
                                    delay |-> gd.delay]
                /\ want' = [want EXCEPT ![name] = NoWant]
           ELSE /\ mw' = [mw EXCEPT ![c].active = FALSE]
                /\ UNCHANGED <<registry, want, mlast>>
    /\ UNCHANGED <<morph, mstage, nctl, ctlConn>>

morphRest == <<trackerVars, timeVars, sessVars, connVars, threadVars, destVars,
              tunnelVars,
        advVars,
        checkerVars,
        waitVars>>

MorphNext ==
    \/ (\E c \in MorphConns, policy \in Policies : Attach(c, policy))
          /\ UNCHANGED morphRest
    \/ (\E c \in MorphConns, m \in LiteralMorphs : Literal(c, m))
          /\ UNCHANGED morphRest
    \/ (\E c \in MorphConns, frame \in ControlFrames : Control(c, frame))
          /\ UNCHANGED morphRest
    \/ (\E c \in MorphConns, n \in DataLens : MorphWriteCall(c, n))
          /\ UNCHANGED morphRest
    \/ (\E c \in MorphConns : MorphRound(c)) /\ UNCHANGED morphRest

\* Connection c makes a round of its MorphWrite loop in this step.
RoundOf(c) == mw[c].active /\ mw'[c].frames # mw[c].frames

\* The cells connection d's next round will ask.
CellsOf(d) == registry[morph[d][1].Profile]

C14_Step ==
    nctl' # nctl =>
        \A d \in MorphConns :
            (d # ctlConn' /\ HasProfile(d)) => CellsOf(d)' = CellsOf(d)

\* C14: a PADDING or TIMING frame that arrives on one connection leaves the
\* override cells every other connection reads as they were, and the
\* profiles of the built-in registry stay as they were initialized.
C14_OverridesPerConnection ==
    /\ [][C14_Step]_vars
    /\ [](registry = [n \in ProfileNames |-> FreshCells])

\* The plaintexts connection c's MorphWrite has written follow each other
\* through the input without a gap, and none but the last is padded.
InOrder(c) ==
    LET f == mw[c].frames IN
    \A i \in 1 .. Len(f) :
        /\ f[i].type = FrameTypeData
        /\ f[i].plain.lo = (IF i = 1 THEN 0 ELSE f[i - 1].plain.hi)
        /\ Morphing(c) => f[i].plain.hi > f[i].plain.lo
        /\ i < Len(f) => f[i].plain.pad = 0

\* C15: MorphWrite writes DATA frames only, and their plaintexts, put
\* together in the order written, are the input followed by nothing but the
\* padding of the last frame: while the loop runs the frames hold the input
\* up to where the rest begins, unpadded, and when it ends they hold all of
\* it.
C15_MorphWriteKeepsData ==
    \A c \in MorphConns :
        LET f == mw[c].frames
            end == IF f = <<>> THEN 0 ELSE f[Len(f)].plain.hi
        IN  /\ InOrder(c)
            /\ end = mw[c].rest.lo
            /\ mw[c].rest.hi = mw[c].n
            /\ (mw[c].rest.lo < mw[c].rest.hi /\ f # <<>>) => f[Len(f)].plain.pad = 0
            /\ (~mw[c].active /\ mstage[c] = "session") => end = mw[c].n

\* C15 witness: a MorphWrite call has returned after two frames, the first
\* full and the second padded.
C15_Witness ==
    \E c \in MorphConns :
        /\ ~mw[c].active
        /\ Len(mw[c].frames) = 2
        /\ mw[c].frames[1].plain.hi - mw[c].frames[1].plain.lo = MaxFramePayload
        /\ mw[c].frames[2].plain.pad > 0
        /\ mw[c].frames[2].plain.hi = mw[c].n

C16_Step ==
    \A c \in MorphConns :
        RoundOf(c) =>
            LET name == morph[c][1].Profile IN
            IF want[name].size # <<>>
            THEN /\ mlast'.targetSize = want[name].size[1]
                 /\ registry'[name].nextPacketSize = 0
            ELSE mlast'.targetSize \in sampleWeighted(name)

\* C16: after HandleControlFrame has handled a PADDING frame whose payload
\* is EncodePaddingControl(S), S from 0 to 65535, the next GetPacketSize on
\* the profile returns S and clears the override; a GetPacketSize with no
\* such frame before it returns a sample of the distribution.
C16_PaddingOverrideOnce == [][C16_Step]_vars

C17_Step ==
    \A c \in MorphConns :
        RoundOf(c) =>
            LET name == morph[c][1].Profile IN
            want[name].delay # <<>> =>
                /\ mlast'.delay = want[name].delay[1]
                /\ registry'[name].nextDelay = 0

\* C17: after HandleControlFrame has handled a TIMING frame whose payload is
\* EncodeTimingControl(D), D a whole number of milliseconds not below zero,
\* the next GetDelay on the profile returns D and clears the override.
C17_TimingOverrideOnce == [][C17_Step]_vars

\* A buffer is handed over for connection c in this step and no MorphWrite
\* loop runs for it.
PlainWriteOf(c) == mw[c] = NoWrite /\ mw'[c] # NoWrite /\ ~Morphing(c)

C23_Step ==
    \A c \in MorphConns :
        PlainWriteOf(c) =>
            /\ mw'[c].frames = <<[type |-> FrameTypeData,
                                  plain |-> [lo |-> 0, hi |-> mw'[c].n, pad |-> 0]]>>
            /\ ~mw'[c].active
            /\ mlast' = mlast
            /\ registry' = registry

\* C23: NewTrafficMorph gives no morph for the empty name and for a name
\* that is not in the registry; and for a connection whose morph is absent,
\* disabled or without profile, a buffer goes out as one DATA frame whose
\* plaintext is the buffer, unpadded, with no size or delay asked of any
\* profile.
C23_NoMorphOneFrame ==
    /\ \A p \in Policies \ ProfileNames : NewTrafficMorph(p) = <<>>
    /\ [][C23_Step]_vars
    /\ [](\A c \in MorphConns :
            (mstage[c] = "session" /\ ~Morphing(c)) =>
                ~mw[c].active /\ Len(mw[c].frames) <= 1)

\* C23 witness: a disabled morph has written a buffer of 17000 bytes as one
\* frame, and a connection whose policy names no profile has no morph.
C23_Witness ==
    \E c, d \in MorphConns :
        /\ morph[c] # <<>>
        /\ ~morph[c][1].Enabled
        /\ Len(mw[c].frames) = 1
        /\ mw[c].frames[1].plain = [lo |-> 0, hi |-> 17000, pad |-> 0]
        /\ mstage[d] = "session"
        /\ morph[d] = <<>>

\* The bytes a frame of MorphWrite takes on the wire: the header, the
\* plaintext and the tag.
WireSize(f) ==
    FrameHeaderSize + (f.plain.hi - f.plain.lo + f.plain.pad) + AeadOverhead

C26_Step ==
    \A c \in MorphConns :
        RoundOf(c) =>
            LET f == mw'[c].frames[Len(mw'[c].frames)]
                T == mlast'.targetSize
            IN  /\ (FrameHeaderSize + AeadOverhead < T
                      /\ T <= MaxFramePayload + AeadOverhead + FrameHeaderSize)
                   => WireSize(f) = T
                /\ WireSize(f) - FrameHeaderSize <= MaxFramePayload + AeadOverhead

DestAddresses ==
    { [family |-> "ip", addr |-> <<10, 0, 0, 1>>],
      [family |-> "ip", addr |-> <<255, 255, 255, 255>>],
      [family |-> "ip", addr |-> <<32, 1>> \o [i \in 1 .. 13 |-> 0] \o <<1>>],
      [family |-> "ip", addr |-> [i \in 1 .. 16 |-> 255]],
      [family |-> "domain", addr |-> <<>>],
      [family |-> "domain", addr |-> <<97>>],
      [family |-> "domain", addr |-> <<97, 46, 98>>],
      [family |-> "domain", addr |-> [i \in 1 .. 255 |-> 97]] }
DestPorts == {0, 443, 65535}
Destinations ==
    {[family |-> a.family, addr |-> a.addr, port |-> port] :
        a \in DestAddresses, port \in DestPorts}

\* The payload that follows the destination in the first frame.
Payloads == {<<>>, <<71>>, <<2, 0, 0, 0, 0, 0, 0, 0>>}

\* Payloads of a first frame that no encoder made.
RawInputs ==
    { <<>>, <<1>>, <<2>>, <<3, 0, 0>>, <<0, 10, 0, 0, 1, 0, 80>>,
      <<4, 10, 0, 0, 1, 0, 80>>, <<255, 1, 2, 3>>, <<2, 0, 0>>,
      <<2, 5, 97, 98, 0, 80>>, <<2, 255, 97, 0, 80>>,
      <<1, 10, 0, 0, 1, 0>>,
      <<3>> \o [i \in 1 .. 10 |-> 0] \o <<255, 255, 10, 0, 0, 1, 0, 80>> }

DestInit ==
    /\ dDest = <<>>
    /\ dTail = <<>>
    /\ dData = <<>>
    /\ dRes = <<>>
    /\ dStage = "start"

\* The outbound handler builds the payload of the first frame:
\* append(marshalDestination(dest), firstPayload...).
DestMarshal(d, p) ==
    /\ dStage = "start"
    /\ dDest' = <<d>>
    /\ dTail' = p
    /\ dData' = marshalDestination(d) \o p
    /\ dStage' = "whole"
    /\ UNCHANGED dRes

\* The payload arrives cut short inside the destination.
DestCut(k) ==
    /\ dStage = "whole"
    /\ k < Len(marshalDestination(dDest[1]))
    /\ dData' = SubSeq(dData, 1, k)
    /\ dStage' = "cut"
    /\ UNCHANGED <<dDest, dTail, dRes>>

\* A client that is no outbound handler sends a payload of its own.
DestRaw(bytes) ==
    /\ dStage = "start"
    /\ dData' = bytes
    /\ dStage' = "raw"
    /\ UNCHANGED <<dDest, dTail, dRes>>

\* handleSession: dest, payload, err := parseDestination(firstFrame.Payload)
DestParse ==
    /\ dStage \in {"whole", "cut", "raw"}
    /\ dRes' = <<[from |-> dStage, r |-> parseDestination(dData)]>>
    /\ dStage' = "done"
    /\ UNCHANGED <<dDest, dTail, dData>>

destRest == <<trackerVars, timeVars, sessVars, connVars, threadVars, morphVars,
             tunnelVars,
        advVars,
        checkerVars,
        waitVars>>

DestNext ==
    \/ (\E d \in Destinations, p \in Payloads : DestMarshal(d, p))
          /\ UNCHANGED destRest
    \/ (\E k \in 0 .. 260 : DestCut(k)) /\ UNCHANGED destRest
    \/ (\E bytes \in RawInputs : DestRaw(bytes)) /\ UNCHANGED destRest
    \/ DestParse /\ UNCHANGED destRest

\* C18: parseDestination applied to marshalDestination(d) followed by a
\* payload p returns no error, the address and the port of d, and p as the
\* remaining bytes, for IPv4 addresses, IPv6 addresses and domain names of
\* up to 255 bytes.
C18_RoundTrip ==
    (dRes # <<>> /\ dRes[1].from = "whole") =>
        /\ ~dRes[1].r.err
        /\ ~dRes[1].r.panic
        /\ dRes[1].r.dest = dDest[1]
        /\ dRes[1].r.remaining = dTail

\* C18 witness: the longest domain name, with a payload behind it that
\* itself looks like a destination, has come back whole.
C18_Witness ==
    /\ dRes # <<>>
    /\ dRes[1].from = "whole"
    /\ dDest[1].family = "domain"
    /\ Len(dDest[1].addr) = 255
    /\ Len(dTail) > 1
    /\ dRes[1].r.dest.port = 65535

\* The bytes hold a type byte of 1, 2 or 3, the whole address (for a domain
\* its length byte too) and the two bytes of the port.
WholeDestination(data) ==
    /\ Len(data) >= 1
    /\ data[1] \in {1, 2, 3}
    /\ data[1] = 1 => Len(data) >= 1 + 4 + 2
    /\ data[1] = 3 => Len(data) >= 1 + 16 + 2
    /\ data[1] = 2 => Len(data) >= 2 /\ Len(data) >= 2 + data[2] + 2

\* C19: parseDestination never reads past the end of its input, and it
\* returns an error exactly when the type byte is not 1, 2 or 3 or the
\* input ends inside the address, at the length byte of a domain or inside
\* the port.
C19_RejectsTruncated ==
    dRes # <<>> =>
        /\ ~dRes[1].r.panic
        /\ dRes[1].r.err <=> ~WholeDestination(dData)

\* C19 witness: an input that ends one byte before the end of the port of
\* a domain destination has been rejected.
C19_Witness ==
    /\ dRes # <<>>
    /\ dRes[1].from = "cut"
    /\ dDest[1].family = "domain"
    /\ Len(dDest[1].addr) > 0
    /\ Len(dData) = Len(marshalDestination(dDest[1])) - 1
    /\ dRes[1].r.err

DestIdle ==
    /\ dDest = <<>>
    /\ dTail = <<>>
    /\ dData = <<>>
    /\ dRes = <<>>
    /\ dStage = "idle"

(***************************************************************************)
(* The order of the checks and what the handler writes and dispatches      *)
(* (checked under SpecInbound)                                             *)
(***************************************************************************)
\* Process makes its three checks of a parsed handshake in this step.
ValidateStep == pc = "validate" /\ pc' # "validate"

C27_Step ==
    ValidateStep =>
        LET nonceVal == GetBE(SubSeq(hs.Nonce, 1, 8))
            valid == InWindow(clock, hs.Timestamp)
        IN  /\ (valid /\ nonceVal \notin seen) =>
                  /\ nonceVal \in seen'
                  /\ AuthenticateUser(hs.UserID, ClientEntries) = <<>> =>
                        (IF fallback THEN pc' = "dial" ELSE outcome' = "fatal")
            /\ (valid /\ nonceVal \in seen) =>
                  (seen' = seen /\ outcome' = "fatal" /\ fbWhy' = fbWhy)
            /\ ~valid => (seen' = seen /\ outcome' = "fatal" /\ fbWhy' = fbWhy)

\* C27: the handler checks the timestamp, then the replay tracker, then the
\* user. The nonce prefix of a handshake is in the tracker after the checks
\* exactly when the timestamp is within 120 seconds of the clock and the
\* prefix was not there, whatever the authentication says; a handshake
\* whose timestamp is outside the window leaves the tracker as it was; and a
\* handshake whose prefix is in the tracker, be it from a handshake that
\* failed authentication, ends as fatal and not in the fallback.
C27_ChecksInOrder == [][C27_Step]_vars

\* The server handshake was written after the three checks and the key
\* derivation had succeeded.
ChecksPassed ==
    /\ hsParsed
    /\ ValidateTimestamp(clock, hs.Timestamp)
    /\ ~recorded
    /\ \E i \in DOMAIN ClientEntries :
          ClientEntries[i].ID # <<>> /\ ClientEntries[i].ID = hs.UserID
    /\ entry # <<>>
    /\ serverKey # NoKey

FirstFrameHasDestination ==
    /\ got["server"] # <<>>
    /\ got["server"][1].type = FrameTypeData
    /\ got["server"][1].data.size > 0
    /\ WholeDestination(got["server"][1].data.id)

\* C29: Dispatch is called at most once for a connection, by the step that
\* read the first frame, and only when the handshake had succeeded and that
\* frame was a DATA frame with a payload that begins with a whole
\* destination; a connection that went to the fallback or ended as fatal
\* before that step is never dispatched.
C29_DispatchOnce ==
    /\ [](dispatched =>
            /\ ChecksPassed
            /\ FirstFrameHasDestination
            /\ Len(got["server"]) = 1
            /\ ~fbDialed
            /\ fbWhy = ""
            /\ pc \in {"pump", "closed"}
            /\ outcome \in {"", "session"})
    /\ [][(dispatched' /\ (~dispatched \/ pc = "first")) =>
             (~dispatched /\ pc = "first" /\ pc' = "pump")]_vars
    /\ []((outcome = "fatal" \/ fbDialed) => ~dispatched)

\* C29 witness: a first frame with a domain destination and two bytes of
\* payload was dispatched and the session ended.
C29_Witness ==
    /\ dispatched
    /\ outcome = "session"
    /\ got["server"][1].data.size = 9

(***************************************************************************)
(* One tunnel (checked under SpecTunnel)                                   *)
(*                                                                         *)
(* The inbound handleSession from the dispatch on, the outbound Process    *)
(* from its first dial, and the relay of handleFallback. Each runs two     *)
(* pumps under task.Run: one reads the connection (requestDone,            *)
(* getResponse of the outbound, postRequest of the fallback), the other    *)
(* writes it. Frames are taken as ReadFrame returns them and as WriteFrame *)
(* is given them; the frames MorphWrite makes of a buffer are one item     *)
(* marked morphed. The ActivityTimer counts the ticks since its last       *)
(* Update and cancels the context when they reach its timeout.             *)
(***************************************************************************)
Sides == {"inbound", "outbound", "fallback"}

\* Profile names of the client entry or of the outbound's configuration.
TunnelPolicies == {"", "youtube"}

\* ob.Target of the outbound.
TunnelTargets ==
    { [family |-> "ip", addr |-> <<10, 0, 0, 1>>, port |-> 80],
      [family |-> "domain", addr |-> <<97, 46, 98>>, port |-> 443] }

\* What follows the destination in the first frame the inbound has read.
FirstPayloads == {<<>>, <<5, 6>>}

\* The frames ReadFrame returns to the reading pump.
PeerFrames ==
    { [Type |-> FrameTypeData, Payload |-> <<1>>],
      [Type |-> FrameTypeData, Payload |-> <<2>>],
      [Type |-> FrameTypePadding, Payload |-> EncodePaddingControl(20)],
      [Type |-> FrameTypeTiming, Payload |-> EncodeTimingControl(20 * Millisecond)],
      [Type |-> FrameTypeClose, Payload |-> <<>>],
      [Type |-> 9, Payload |-> <<1>>] }

\* The multi-buffers link.Reader returns.
MultiBuffers == {<<(<<8>>)>>, <<(<<8>>), (<<9, 9>>)>>}

\* What ReadMultiBufferTimeout returns to the outbound: buffers, the
\* timeout, another error. A link.Reader that is no TimeoutReader is not
\* read and counts as the timeout.
FirstReads ==
    { [k |-> "data", mb |-> <<(<<5>>), (<<6>>)>>],
      [k |-> "timeout", mb |-> <<>>],
      [k |-> "error", mb |-> <<>>] }

\* The chunks io.Copy moves for the fallback.
Chunks == {<<71, 69>>}

RECURSIVE Flatten(_)
\* The bytes of the buffers of a multi-buffer, appended in order.
Flatten(mb) == IF mb = <<>> THEN <<>> ELSE Head(mb) \o Flatten(Tail(mb))

\* An item the handler writes to its connection.
Item(k, type, payload, morphed) ==
    [k |-> k, Type |-> type, Payload |-> payload, morphed |-> morphed]

HandshakeItem == Item("hs", 0, <<>>, FALSE)

\* Mutant: a payload is put in front of what the link already took.
WriteMultiBuffer_Front(out, payload) == <<payload>> \o out

\* link.Writer.WriteMultiBuffer(buf.MultiBuffer{buf.FromBytes(payload)}): the
\* payload follows what the link already took.
WriteMultiBuffer(out, payload) == Append(out, payload)

\* Mutant: the first frame carries the payload without the destination.
FirstFramePayload_NoDestination(destination, firstPayloadBytes) ==
    firstPayloadBytes

\* postRequest: firstFrame := append(destData, firstPayloadBytes...)
FirstFramePayload(destination, firstPayloadBytes) ==
    marshalDestination(destination) \o firstPayloadBytes

\* What a writing pump writes for one buffer: MorphWrite when the morph is
\* there and enabled, WriteFrame(DATA, data) otherwise.
FrameFor(m, data) ==
    Item("frame", FrameTypeData, data, m # <<>> /\ m[1].Enabled)

\* The frames of a multi-buffer, one buffer after the other.
FramesFor(m, mb) == [i \in 1 .. Len(mb) |-> FrameFor(m, mb[i])]

\* signal.CancelAfterInactivity(ctx, cancel, ConnectionIdle)
CancelAfterInactivity(timeout) ==
    [timeout |-> timeout, idle |-> 0, cancelled |-> FALSE]

NoTimer == [timeout |-> 0, idle |-> 0, cancelled |-> FALSE]

\* timer.Update()
Update(t) == [t EXCEPT !.idle = 0]

\* Mutant: SetTimeout cancels at once, as it does for a timeout of zero.
SetTimeout_Finish(t, timeout) == [t EXCEPT !.cancelled = TRUE]

\* timer.SetTimeout(timeout), timeout above zero: the check is restarted
\* with the new period.
SetTimeout(t, timeout) == [t EXCEPT !.timeout = timeout, !.idle = 0]

\* Mutant: a PADDING frame takes the branch of a DATA frame.
SwitchFrame_PaddingAsData(type) ==
    IF type \in {FrameTypeData, FrameTypePadding} THEN "data"
    ELSE IF type = FrameTypeTiming THEN "control"
    ELSE IF type = FrameTypeClose THEN "close"
    ELSE "default"

\* switch frame.Type of the reading pumps: the branch taken.
SwitchFrame(type) ==
    IF type = FrameTypeData THEN "data"
    ELSE IF type \in {FrameTypePadding, FrameTypeTiming} THEN "control"
    ELSE IF type = FrameTypeClose THEN "close"
    ELSE "default"

\* Mutant: a failed dial is not seen as a failure.
AfterDial_Unchecked(ok, attempt) == "handshake"

\* retry.ExponentialBackoff(5, 200).On: where Process stands after the
\* attempt-th call of dialer.Dial.
AfterDial(ok, attempt) ==
    IF ok THEN "handshake"
    ELSE IF attempt >= DialAttempts THEN "done" ELSE "dial"

TunnelInit ==
    /\ tSide \in Sides
    /\ tStage = (IF tSide = "outbound" THEN "dial"
                 ELSE IF tSide = "inbound" THEN "session" ELSE "fallback")
    /\ tPolicy \in (IF tSide = "fallback" THEN {""} ELSE TunnelPolicies)
    /\ tTarget \in (IF tSide = "outbound" THEN TunnelTargets ELSE {NoDestination})
    /\ tDials = 0
    /\ tConnected = FALSE
    /\ tMorph = <<>>
    /\ tCells = FreshCells
    /\ firstPayload = <<>>
    /\ connOut = <<>>
    /\ linkOut = <<>>
    /\ linkLog = <<>>
    /\ linkReads = 0
    /\ firstRead = <<>>
    /\ rdLog = <<>>
    /\ closeAt = -1
    /\ rdPump = "off"
    /\ wrPump = "off"
    /\ timer = NoTimer
    /\ quiet = 0
    /\ tResult = ""
    /\ interrupted = {}

TunnelIdle ==
    /\ tSide = ""
    /\ tStage = "off"
    /\ tPolicy = ""
    /\ tTarget = NoDestination
    /\ tDials = 0
    /\ tConnected = FALSE
    /\ tMorph = <<>>
    /\ tCells = FreshCells
    /\ firstPayload = <<>>
    /\ connOut = <<>>
    /\ linkOut = <<>>
    /\ linkLog = <<>>
    /\ linkReads = 0
    /\ firstRead = <<>>
    /\ rdLog = <<>>
    /\ closeAt = -1
    /\ rdPump = "off"
    /\ wrPump = "off"
    /\ timer = NoTimer
    /\ quiet = 0
    /\ tResult = ""
    /\ interrupted = {}

tunnelCfg == <<tSide, tPolicy, tTarget>>

\* task.Run returns the error of a pump: the handler returns.
Ends(err) ==
    /\ tStage' = "done"
    /\ tResult' = err

\* Both pumps are started under task.Run.
Running == tStage = "run"

\* Mutant: only the reader of the link is interrupted.
AfterRun_ReaderOnly(side, err) ==
    IF side = "inbound" /\ err # "nil" THEN {"link.Reader"} ELSE {}

\* What the handler does when task.Run returned err: handleSession
\* interrupts both ends of the link (inbound.go:291-295), the outbound and
\* the fallback return the error and no more.
AfterRun(side, err) ==
    IF side = "inbound" /\ err # "nil" THEN {"link.Reader", "link.Writer"} ELSE {}

\* The return of task.Run, as part of the step that makes it return.
Interrupt ==
    interrupted' = (IF Running /\ tStage' = "done"
                    THEN AfterRun(tSide, tResult') ELSE interrupted)

\* Outbound Process: one call of dialer.Dial by the retry loop
\* (outbound_test.go:172-184).
Dial(ok) ==
    /\ tStage = "dial"
    /\ tDials' = tDials + 1
    /\ tConnected' = ok
    /\ tStage' = AfterDial(ok, tDials')
    /\ tResult' = (IF tStage' = "done" THEN "failed to connect to reflex server"
                   ELSE tResult)
    /\ UNCHANGED <<tunnelCfg, tMorph, tCells, firstPayload, connOut, linkOut,
                   linkLog, linkReads, firstRead, rdLog, closeAt, rdPump,
                   wrPump, timer, quiet>>

\* Outbound Process from GenerateKeyPair to the start of the pumps
\* (outbound_test.go:188-257): the client id is parsed, the client handshake
\* is written and the server handshake is read.
Handshake(uuidOk, serverOk) ==
    /\ tStage = "handshake"
    /\ IF ~uuidOk
       THEN /\ Ends("invalid client UUID")
            /\ UNCHANGED <<connOut, tMorph, timer, rdPump, wrPump>>
       ELSE /\ connOut' = Append(connOut, HandshakeItem)
            /\ IF ~serverOk
               THEN /\ Ends("failed to read server handshake")
                    /\ UNCHANGED <<tMorph, timer, rdPump, wrPump>>
               ELSE /\ tMorph' = NewTrafficMorph(tPolicy)
                    /\ timer' = CancelAfterInactivity(IdleTicks)
                    /\ rdPump' = "run"
                    /\ wrPump' = "first"
                    /\ tStage' = "run"
                    /\ UNCHANGED tResult
    /\ UNCHANGED <<tunnelCfg, tDials, tConnected, tCells, firstPayload, linkOut,
                   linkLog, linkReads, firstRead, rdLog, closeAt, quiet>>

\* Inbound handleSession from NewTrafficMorph to task.Run
\* (inbound.go:195-226, 290-291): the first frame gave a destination and
\* the payload p, the timer is made and the destination is dispatched.
Dispatch(p) ==
    /\ tStage = "session"
    /\ tMorph' = NewTrafficMorph(tPolicy)
    /\ firstPayload' = p
    /\ timer' = CancelAfterInactivity(IdleTicks)
    /\ rdPump' = "first"
    /\ wrPump' = "run"
    /\ tStage' = "run"
    /\ UNCHANGED <<tunnelCfg, tDials, tConnected, tCells, connOut, linkOut,
                   linkLog, linkReads, firstRead, rdLog, closeAt, quiet, tResult>>

\* handleFallback up to task.Run (inbound.go:348-371).
FallbackStart(ok) ==
    /\ tStage = "fallback"
    /\ IF ok
       THEN /\ timer' = CancelAfterInactivity(IdleTicks)
            /\ rdPump' = "run"
            /\ wrPump' = "run"
            /\ tStage' = "run"
            /\ UNCHANGED tResult
       ELSE /\ Ends("failed to connect to fallback destination")
            /\ UNCHANGED <<timer, rdPump, wrPump>>
    /\ UNCHANGED <<tunnelCfg, tDials, tConnected, tMorph, tCells, firstPayload,
                   connOut, linkOut, linkLog, linkReads, firstRead, rdLog,
                   closeAt, quiet>>

\* requestDone before its loop (inbound.go:231-236): the payload of the
\* first frame goes upstream.
RdFirst ==
    /\ Running
    /\ rdPump = "first"
    /\ rdPump' = "run"
    /\ IF Len(firstPayload) > 0
       THEN linkOut' = WriteMultiBuffer(linkOut, firstPayload) /\ quiet' = 0
       ELSE UNCHANGED <<linkOut, quiet>>
    /\ UNCHANGED <<tunnelCfg, tStage, tDials, tConnected, tMorph, tCells,
                   firstPayload, connOut, linkLog, linkReads, firstRead, rdLog,
                   closeAt, wrPump, timer, tResult>>

\* One round of the loop of requestDone (inbound.go:238-260) or of
\* getResponse of the outbound (outbound_test.go:313-335): ReadFrame returns
\* the frame f; ok tells whether link.Writer takes a payload.
RdFrame(f, ok) ==
    /\ Running
    /\ tSide \in {"inbound", "outbound"}
    /\ rdPump = "run"
    /\ Len(rdLog) < MaxRead
    /\ rdLog' = Append(rdLog, f)
    /\ IF SwitchFrame(f.Type) = "data"
       THEN IF ok
            THEN /\ linkOut' = WriteMultiBuffer(linkOut, f.Payload)
                 /\ timer' = Update(timer)
                 /\ quiet' = 0
                 /\ UNCHANGED <<tCells, closeAt, rdPump, tStage, tResult>>
            ELSE /\ rdPump' = "err"
                 /\ Ends("failed to forward")
                 /\ UNCHANGED <<linkOut, timer, quiet, tCells, closeAt>>
       ELSE IF SwitchFrame(f.Type) = "control"
       THEN /\ tCells' = (IF tMorph # <<>> /\ tMorph[1].Profile # ""
                          THEN HandleControlFrame(f, tCells) ELSE tCells)
            /\ UNCHANGED <<linkOut, timer, quiet, closeAt, rdPump, tStage, tResult>>
       ELSE IF SwitchFrame(f.Type) = "close"
       THEN /\ rdPump' = "ok"
            /\ closeAt' = Len(connOut)
            /\ timer' = SetTimeout(timer, OnlyTicks)
            /\ IF timer'.cancelled
               THEN Ends("context canceled")
               ELSE UNCHANGED <<tStage, tResult>>
            /\ UNCHANGED <<linkOut, quiet, tCells>>
       ELSE /\ rdPump' = "err"
            /\ Ends("unknown frame type")
            /\ UNCHANGED <<linkOut, timer, quiet, tCells, closeAt>>
    /\ UNCHANGED <<tunnelCfg, tDials, tConnected, tMorph, firstPayload, connOut,
                   linkLog, linkReads, firstRead, wrPump>>

\* ReadFrame returns an error to the reading pump: the peer closed the
\* connection or a frame did not open.
RdError ==
    /\ Running
    /\ tSide \in {"inbound", "outbound"}
    /\ rdPump = "run"
    /\ rdPump' = "err"
    /\ Ends("read frame")
    /\ UNCHANGED <<tunnelCfg, tDials, tConnected, tMorph, tCells, firstPayload,
                   connOut, linkOut, linkLog, linkReads, firstRead, rdLog,
                   closeAt, wrPump, timer, quiet>>

\* postRequest of the outbound before its loop (outbound_test.go:262-283):
\* the timed read of link.Reader and the first frame.
WrFirst(r) ==
    /\ Running
    /\ wrPump = "first"
    /\ linkReads' = linkReads + 1
    /\ IF r.k = "error"
       THEN /\ wrPump' = "err"
            /\ Ends("first read")
            /\ UNCHANGED <<connOut, firstRead, quiet>>
       ELSE /\ firstRead' = Flatten(r.mb)
            /\ connOut' = Append(connOut,
                             Item("frame", FrameTypeData,
                                  FirstFramePayload(tTarget, Flatten(r.mb)), FALSE))
            /\ quiet' = 0
            /\ wrPump' = "run"
            /\ UNCHANGED <<tStage, tResult>>
    /\ UNCHANGED <<tunnelCfg, tDials, tConnected, tMorph, tCells, firstPayload,
                   linkOut, linkLog, rdLog, closeAt, rdPump, timer>>

\* One round of the loop of responseDone (inbound.go:266-287) or of
\* postRequest of the outbound (outbound_test.go:286-307): link.Reader
\* returns the multi-buffer mb.
WrBuffers(mb, failAt) ==
    /\ Running
    /\ tSide \in {"inbound", "outbound"}
    /\ wrPump = "run"
    /\ Len(linkLog) < MaxLinkReads
    /\ failAt <= Len(FramesFor(tMorph, mb))
    /\ linkReads' = linkReads + 1
    /\ linkLog' = linkLog \o mb
    /\ IF failAt = 0
       THEN /\ connOut' = connOut \o FramesFor(tMorph, mb)
            /\ timer' = Update(timer)
            /\ quiet' = 0
            /\ UNCHANGED <<wrPump, tStage, tResult>>
       ELSE \* the WriteFrame call number failAt returns an error: the pump
            \* returns with the frames before it written
            /\ connOut' = connOut \o SubSeq(FramesFor(tMorph, mb), 1, failAt - 1)
            /\ quiet' = (IF failAt > 1 THEN 0 ELSE quiet)
            /\ wrPump' = "err"
            /\ Ends("failed to write response frame")
            /\ UNCHANGED timer
    /\ UNCHANGED <<tunnelCfg, tDials, tConnected, tMorph, tCells,
                   firstPayload, linkOut, firstRead, rdLog, closeAt, rdPump>>

\* link.Reader returns an error to the writing pump (the end of the stream
\* is one).
WrError ==
    /\ Running
    /\ tSide \in {"inbound", "outbound"}
    /\ wrPump = "run"
    /\ linkReads' = linkReads + 1
    /\ wrPump' = "err"
    /\ Ends("read link")
    /\ UNCHANGED <<tunnelCfg, tDials, tConnected, tMorph, tCells, firstPayload,
                   connOut, linkOut, linkLog, firstRead, rdLog, closeAt, rdPump,
                   timer, quiet>>

\* postRequest of the fallback: one round of io.Copy(fbConn, wrapped), or
\* its end at the end of the client's stream (inbound.go:373-377).
CopyUp(chunk) ==
    /\ Running
    /\ tSide = "fallback"
    /\ rdPump = "run"
    /\ IF chunk # <<>>
       THEN /\ Len(linkOut) < MaxRead
            /\ linkOut' = Append(linkOut, chunk)
            /\ quiet' = 0
            /\ UNCHANGED <<rdPump, timer>>
       ELSE /\ rdPump' = "ok"
            /\ timer' = SetTimeout(timer, OnlyTicks)
            /\ UNCHANGED <<linkOut, quiet>>
    /\ IF timer'.cancelled
       THEN Ends("context canceled")
       ELSE IF rdPump' = "ok" /\ wrPump = "ok"
       THEN Ends("nil")
       ELSE UNCHANGED <<tStage, tResult>>
    /\ UNCHANGED <<tunnelCfg, tDials, tConnected, tMorph, tCells, firstPayload,
                   connOut, linkLog, linkReads, firstRead, rdLog, closeAt, wrPump>>

\* getResponse of the fallback: one round of io.Copy(conn, fbConn), or its
\* end at the end of the origin's stream (inbound.go:379-383).
CopyDown(chunk) ==
    /\ Running
    /\ tSide = "fallback"
    /\ wrPump = "run"
    /\ IF chunk # <<>>
       THEN /\ Len(connOut) < MaxLinkReads
            /\ connOut' = Append(connOut, Item("raw", 0, chunk, FALSE))
            /\ quiet' = 0
            /\ UNCHANGED <<wrPump, timer>>
       ELSE /\ wrPump' = "ok"
            /\ timer' = SetTimeout(timer, OnlyTicks)
            /\ UNCHANGED <<connOut, quiet>>
    /\ IF timer'.cancelled
       THEN Ends("context canceled")
       ELSE IF wrPump' = "ok" /\ rdPump = "ok"
       THEN Ends("nil")
       ELSE UNCHANGED <<tStage, tResult>>
    /\ UNCHANGED <<tunnelCfg, tDials, tConnected, tMorph, tCells, firstPayload,
                   linkOut, linkLog, linkReads, firstRead, rdLog, closeAt, rdPump>>

\* Time passes without an Update of the timer.
Tick ==
    /\ Running
    /\ timer.idle < timer.timeout
    /\ timer' = [timer EXCEPT !.idle = @ + 1]
    /\ quiet' = (IF quiet < IdleTicks THEN quiet + 1 ELSE quiet)
    /\ UNCHANGED <<tunnelCfg, tStage, tDials, tConnected, tMorph, tCells,
                   firstPayload, connOut, linkOut, linkLog, linkReads,
                   firstRead, rdLog, closeAt, rdPump, wrPump, tResult>>

\* The check of the timer finds no Update within its period: the context
\* is cancelled and task.Run returns.
Expire ==
    /\ Running
    /\ timer.idle >= timer.timeout
    /\ timer' = [timer EXCEPT !.cancelled = TRUE]
    /\ Ends("context canceled")
    /\ UNCHANGED <<tunnelCfg, tDials, tConnected, tMorph, tCells, firstPayload,
                   connOut, linkOut, linkLog, linkReads, firstRead, rdLog,
                   closeAt, rdPump, wrPump, quiet>>

tunnelRest == <<trackerVars, timeVars, sessVars, connVars, threadVars,
                morphVars, destVars,
        advVars,
        checkerVars,
        waitVars>>

TunnelNext ==
    \/ (\E ok \in BOOLEAN : Dial(ok)) /\ Interrupt /\ UNCHANGED tunnelRest
    \/ (\E uuidOk, serverOk \in BOOLEAN : Handshake(uuidOk, serverOk))
          /\ Interrupt /\ UNCHANGED tunnelRest
    \/ (\E p \in FirstPayloads : Dispatch(p)) /\ Interrupt /\ UNCHANGED tunnelRest
    \/ (\E ok \in BOOLEAN : FallbackStart(ok)) /\ Interrupt /\ UNCHANGED tunnelRest
    \/ RdFirst /\ Interrupt /\ UNCHANGED tunnelRest
    \/ (\E f \in PeerFrames, ok \in BOOLEAN : RdFrame(f, ok)) /\ Interrupt /\ UNCHANGED tunnelRest
    \/ RdError /\ Interrupt /\ UNCHANGED tunnelRest
    \/ (\E r \in FirstReads : WrFirst(r)) /\ Interrupt /\ UNCHANGED tunnelRest
    \/ (\E mb \in MultiBuffers : \E failAt \in 0 .. Len(mb) : WrBuffers(mb, failAt))
          /\ Interrupt /\ UNCHANGED tunnelRest
    \/ WrError /\ Interrupt /\ UNCHANGED tunnelRest
    \/ (\E chunk \in Chunks \cup {<<>>} : CopyUp(chunk)) /\ Interrupt /\ UNCHANGED tunnelRest
    \/ (\E chunk \in Chunks \cup {<<>>} : CopyDown(chunk)) /\ Interrupt /\ UNCHANGED tunnelRest
    \/ Tick /\ Interrupt /\ UNCHANGED tunnelRest
    \/ Expire /\ Interrupt /\ UNCHANGED tunnelRest

\* C21: on an outbound connection nothing is written before the client
\* handshake, and the first frame after it is one DATA frame, written by
\* WriteFrame, whose plaintext is marshalDestination(target) followed by the
\* bytes the timed first read returned, none when it timed out; every later
\* frame carries a buffer of link.Reader and nothing else, so the
\* destination is sent once.
C21_FirstFrameIsDestination ==
    tSide = "outbound" =>
        /\ connOut # <<>> => connOut[1] = HandshakeItem
        /\ wrPump \in {"off", "first"} => Len(connOut) <= 1
        /\ Len(connOut) >= 2 =>
              connOut[2] = Item("frame", FrameTypeData,
                                marshalDestination(tTarget) \o firstRead, FALSE)
        /\ LET n == IF Len(connOut) > 2 THEN Len(connOut) - 2 ELSE 0 IN
              /\ n <= Len(linkLog)
              /\ SubSeq(connOut, 3, Len(connOut))
                    = FramesFor(tMorph, SubSeq(linkLog, 1, n))
              /\ wrPump # "err" => n = Len(linkLog)

\* C21 witness: the first frame carried a domain destination and two bytes
\* of payload, and a frame with a buffer followed it.
C21_Witness ==
    /\ tSide = "outbound"
    /\ tTarget.family = "domain"
    /\ firstRead = <<5, 6>>
    /\ Len(connOut) >= 3
    /\ connOut[3].Payload = <<8>>

\* The reading pump of a session returns on a CLOSE frame in this step.
CloseStep == tSide \in {"inbound", "outbound"} /\ rdPump = "run" /\ rdPump' = "ok"

\* The writing pump of a session gets data from link.Reader in this step,
\* after the reading pump has returned.
ReadAfterClose ==
    /\ tSide \in {"inbound", "outbound"}
    /\ rdPump = "ok"
    /\ linkReads' > linkReads
    /\ wrPump' = "run"

C22_Step ==
    /\ CloseStep =>
          /\ rdLog'[Len(rdLog')].Type = FrameTypeClose
          /\ wrPump' = wrPump
          /\ tStage' = "run"
          /\ tResult' = ""
          /\ ~timer'.cancelled
    /\ ReadAfterClose =>
          /\ Len(connOut') > Len(connOut)
          /\ \A i \in Len(connOut) + 1 .. Len(connOut') :
                connOut'[i].k = "frame" /\ connOut'[i].Type = FrameTypeData
          /\ wrPump = "run" =>
                connOut' = connOut \o
                    FramesFor(tMorph, SubSeq(linkLog', Len(linkLog) + 1, Len(linkLog')))

C24_DialThenHandshake ==
    tSide = "outbound" =>
        /\ tDials <= DialAttempts
        /\ ~tConnected => (connOut = <<>> /\ linkReads = 0 /\ linkOut = <<>>
                            /\ tStage \in {"dial", "done"})
        /\ (tDials = DialAttempts /\ ~tConnected) =>
              /\ tStage = "done"
              /\ tResult = "failed to connect to reflex server"

\* C24 witness: five dials failed and Process returned.
C24_Witness ==
    /\ tSide = "outbound"
    /\ tDials = DialAttempts
    /\ ~tConnected
    /\ tStage = "done"

\* C25: every transfer of either direction resets the idle timer, in the
\* session pumps and in the copiers of the fallback: the timer is never
\* idle for longer than the tunnel has been quiet, and the context is
\* cancelled by the timer only when nothing was transferred for the
\* timeout.
C25_TransfersResetTimer ==
    /\ [](Running => timer.idle <= quiet)
    /\ [][(~timer.cancelled /\ timer'.cancelled) => quiet >= timer.timeout]_vars

RECURSIVE DataPayloads(_)
\* The payloads of the DATA frames of a log, in order.
DataPayloads(log) ==
    IF log = <<>> THEN <<>>
    ELSE (IF Head(log).Type = FrameTypeData THEN <<Head(log).Payload>> ELSE <<>>)
         \o DataPayloads(Tail(log))

RECURSIVE Applied(_, _)
\* The cells after the PADDING and TIMING frames of a log were applied.
Applied(log, cells) ==
    IF log = <<>> THEN cells
    ELSE Applied(Tail(log),
                 IF Head(log).Type \in {FrameTypePadding, FrameTypeTiming}
                 THEN HandleControlFrame(Head(log), cells) ELSE cells)

\* The frames whose payload link.Writer took: all that were read, but for
\* a last one that link.Writer refused.
Taken == IF tResult = "failed to forward" THEN SubSeq(rdLog, 1, Len(rdLog) - 1)
         ELSE rdLog

\* C30: what the reading pump has written upstream is the payload of the
\* first frame, if any, and then the payloads of the DATA frames it read,
\* in order, and nothing of a PADDING or TIMING frame; those were applied
\* to the profile when the morph has one and dropped otherwise; the pump
\* read on after DATA, PADDING and TIMING frames only; it returned without
\* error exactly when the last frame was CLOSE and with an error when the
\* type byte was none of the four.
C30_OnlyDataUpstream ==
    tSide \in {"inbound", "outbound"} =>
        LET n == Len(rdLog)
            types == {FrameTypeData, FrameTypePadding, FrameTypeTiming}
        IN  /\ linkOut =
                  (IF Len(firstPayload) > 0 /\ rdPump \notin {"off", "first"}
                   THEN <<firstPayload>> ELSE <<>>) \o DataPayloads(Taken)
            /\ tCells = (IF tMorph # <<>> THEN Applied(rdLog, FreshCells)
                         ELSE FreshCells)
            /\ \A i \in 1 .. n - 1 : rdLog[i].Type \in types
            /\ rdPump = "ok" <=> (n > 0 /\ rdLog[n].Type = FrameTypeClose)
            /\ (rdPump = "ok" /\ Running) => tResult = ""
            /\ (n > 0 /\ rdLog[n].Type \notin types \cup {FrameTypeClose}) =>
                  (rdPump = "err" /\ tStage = "done"
                     /\ tResult = "unknown frame type")

\* C30 witness: the request pump of a session with a profile read a PADDING
\* frame, applied it, then read a DATA frame and forwarded that alone.
C30_Witness ==
    /\ tSide = "inbound"
    /\ Len(rdLog) = 2
    /\ rdLog[1].Type = FrameTypePadding
    /\ rdLog[2].Type = FrameTypeData
    /\ tCells.nextPacketSize = 20
    /\ linkOut = <<rdLog[2].Payload>>

(***************************************************************************)
(* The order of the upstream writes of the request pump (SpecTunnel)       *)
(***************************************************************************)
\* The request pump of the inbound writes a payload upstream in this step.
WritesUpstream == tSide = "inbound" /\ linkOut' # linkOut

\* C31: every payload the request pump of the inbound writes upstream
\* follows all that it wrote before. The bytes that came with the
\* destination in the first frame are written when nothing else has been
\* written and no later frame has been read; the payload written after that
\* is the payload of the DATA frame read in the same round, so that the
\* payloads reach the link in the order in which their frames were read.
C31_Step ==
    WritesUpstream =>
        /\ Len(linkOut') = Len(linkOut) + 1
        /\ SubSeq(linkOut', 1, Len(linkOut)) = linkOut
        /\ IF rdPump = "first"
           THEN /\ linkOut = <<>>
                /\ rdLog' = <<>>
                /\ linkOut'[1] = firstPayload
           ELSE /\ Len(rdLog') = Len(rdLog) + 1
                /\ rdLog'[Len(rdLog')].Type = FrameTypeData
                /\ linkOut'[Len(linkOut')] = rdLog'[Len(rdLog')].Payload

C31_UpstreamInOrder == [][C31_Step]_vars

\* C31 witness: the first payload, then the payloads of two DATA frames that
\* differ, are upstream in the order of their arrival.
C31_Witness ==
    /\ tSide = "inbound"
    /\ firstPayload = <<5, 6>>
    /\ Len(rdLog) = 2
    /\ rdLog[1].Payload # rdLog[2].Payload
    /\ linkOut = <<firstPayload, rdLog[1].Payload, rdLog[2].Payload>>

(***************************************************************************)
(* A party on the transport (checked under SpecTransport)                  *)
(*                                                                         *)
(* SpecTransport is SpecSession with a third party that sits on the TCP    *)
(* connection and holds no session key: it can put bytes of its own into   *)
(* the stream, change bytes in flight and cut the stream. It cannot seal:  *)
(* a ciphertext it changed opens under no key.                             *)
(***************************************************************************)
AdvInit == tampers = 0
AdvIdle == tampers = 0

advRest == <<trackerVars, timeVars, connVars, threadVars, morphVars, destVars,
             tunnelVars,
        checkerVars,
        waitVars>>

\* The end of the stream, as io.ReadFull meets it.
Eof == [kind |-> "eof"]

\* The positions of the headers in a stream and the positions between two
\* frames.
HeadersOf(w) == {i \in 1 .. Len(w) : w[i].kind = "hdr"}
Boundaries(w) == {i \in 0 .. Len(w) : i = Len(w) \/ w[i + 1].kind = "hdr"}

\* The stream has not been cut.
Intact(w) == \A i \in 1 .. Len(w) : w[i].kind # "eof"

\* Three bytes put into the stream of peer p between two frames: a header
\* with the length 0 and the type frameType (codec.go:83-88 is what reads it).
InjectHeader(p, k, frameType) ==
    /\ tampers < MaxTampers
    /\ Intact(wire[p])
    /\ k \in Boundaries(wire[p])
    /\ wire' = [wire EXCEPT ![p] =
                  SubSeq(@, 1, k)
                  \o <<[kind |-> "hdr", length |-> 0, type |-> frameType]>>
                  \o SubSeq(@, k + 1, Len(@))]
    /\ tampers' = tampers + 1
    /\ UNCHANGED <<sess, wrote, got, readErr, sealLog>>

\* The third byte of a header in flight is overwritten (header[2], which
\* WriteFrame sets at codec.go:118 outside the sealed bytes).
Retype(p, i, frameType) ==
    /\ tampers < MaxTampers
    /\ i \in HeadersOf(wire[p])
    /\ wire[p][i].type # frameType
    /\ wire' = [wire EXCEPT ![p][i].type = frameType]
    /\ tampers' = tampers + 1
    /\ UNCHANGED <<sess, wrote, got, readErr, sealLog>>

\* A bit of a ciphertext in flight is flipped: the bytes are no ciphertext
\* of any key any more.
Garble(p, i) ==
    /\ tampers < MaxTampers
    /\ i \in 1 .. Len(wire[p])
    /\ wire[p][i].kind = "ct"
    /\ wire[p][i].key # 0
    /\ wire' = [wire EXCEPT ![p][i].key = 0]
    /\ tampers' = tampers + 1
    /\ UNCHANGED <<sess, wrote, got, readErr, sealLog>>

\* The stream of peer p is cut after k items: between two frames, or
\* between a header and its ciphertext.
Cut(p, k) ==
    /\ tampers < MaxTampers
    /\ Intact(wire[p])
    /\ k \in 0 .. Len(wire[p])
    /\ wire' = [wire EXCEPT ![p] = Append(SubSeq(@, 1, k), Eof)]
    /\ tampers' = tampers + 1
    /\ UNCHANGED <<sess, wrote, got, readErr, sealLog>>

\* The stream the third party works on is the one the server reads; the two
\* directions are alike, and the frames of the other one play no part.
Victim == "client"

\* WriteFrame of the client on a connection that is still up.
TransportWrite ==
    \E t \in FrameTypes, n \in PlainSizes :
        /\ Intact(wire[Victim])
        /\ WriteFrame(Victim, t, NextData(Victim, n))

TransportNext ==
    \/ TransportWrite /\ UNCHANGED <<advVars, advRest>>
    \/ SessRead /\ UNCHANGED <<advVars, advRest>>
    \/ (\E k \in 0 .. 2 * MaxFrames, t \in FrameTypes :
            InjectHeader(Victim, k, t)) /\ UNCHANGED advRest
    \/ (\E i \in 1 .. 2 * MaxFrames, t \in FrameTypes :
            Retype(Victim, i, t)) /\ UNCHANGED advRest
    \/ (\E i \in 1 .. 2 * MaxFrames : Garble(Victim, i)) /\ UNCHANGED advRest
    \/ (\E k \in 0 .. 2 * MaxFrames : Cut(Victim, k)) /\ UNCHANGED advRest

\* Peer p makes a ReadFrame call in this step and the call returns an error.
FailedRead(p) == ~readErr[p] /\ readErr'[p]

\* C32: a ReadFrame call that returns an error leaves the read counter of
\* its Session as it was: the counter moves only with a ciphertext that
\* opened.
C32_Step ==
    \A p \in Peers :
        FailedRead(p) => sess'[p].readNonce = sess[p].readNonce

C32_FailedReadKeepsCounter == [][C32_Step]_vars

\* A ReadFrame call that fails on a cut stream, in the header or in the
\* ciphertext, leaves the read counter as it was.
C32_Truncated ==
    [][\A p \in Peers :
          (FailedRead(p) /\ \/ wire[Other(p)][1].kind = "eof"
                            \/ wire[Other(p)][2].kind = "eof")
             => sess'[p].readNonce = sess[p].readNonce]_vars

\* C36: every frame a ReadFrame call returned without error is a frame the
\* peer's Session sealed, with the type and the payload it was sealed
\* with, whatever the party on the transport did to the bytes in flight.
C36_OnlySealedFrames ==
    \A p \in Peers :
        \A i \in 1 .. Len(got[p]) :
            \E j \in 1 .. Len(wrote[Other(p)]) : wrote[Other(p)][j] = got[p][i]

\* What the third party cannot do: the payload of every frame that was
\* returned with a payload is one the peer sealed, and the frames with a
\* payload arrive in the order of their sealing.
C36_PayloadsSealed ==
    \A p \in Peers :
        \A i \in 1 .. Len(got[p]) :
            got[p][i].data.size > 0 =>
                \E j \in 1 .. Len(wrote[Other(p)]) :
                    wrote[Other(p)][j].data = got[p][i].data

(***************************************************************************)
(* Concurrent callers of NonceTracker.Check (checked under SpecCheckers)   *)
(*                                                                         *)
(* Every connection runs Process in a goroutine of its own and all of them *)
(* call Check on the one tracker of the handler (inbound.go:143). A call   *)
(* is modelled in the steps the code takes: nt.mu.Lock, the existence      *)
(* test, the eviction and the insertion, and the deferred nt.mu.Unlock.    *)
(***************************************************************************)
Checkers == 1 .. NumCheckers

NoCall == [pc |-> "idle", nonce |-> -1, result |-> FALSE]

CheckerInit ==
    /\ \E m \in 1 .. MaxCap : NewNonceTracker(m)
    /\ calls = 0
    /\ lastNonce = -1
    /\ lastResult = FALSE
    /\ accepts = <<>>
    /\ clearedAt = {}
    /\ sizeAt = <<>>
    /\ others = <<>>
    /\ ntMu = 0
    /\ ck = [t \in Checkers |-> NoCall]
    /\ evicted = FALSE

CheckerIdle ==
    /\ ntMu = 0
    /\ ck = <<>>
    /\ evicted = FALSE

checkerRest == <<max, calls, lastNonce, lastResult, accepts, clearedAt, sizeAt,
                 others, timeVars, sessVars, connVars, threadVars, morphVars,
                 destVars, tunnelVars, advVars,
        waitVars>>

\* Mutant: the lock is handed out while another caller holds it.
MutexFree_Always(holder) == TRUE

\* sync.Mutex: Lock returns when no one holds the mutex.
MutexFree(holder) == holder = 0

\* Mutant: the set is never reset.
Evict_Never(s, m) == s

\* if len(nt.seen) >= nt.max { nt.seen = make(map[uint64]struct{}, nt.max) }
Evict(s, m) == IF Cardinality(s) >= m THEN {} ELSE s

\* nt.mu.Lock() of the call Check(nonce) of caller t.
CkLock(t, nonce) ==
    /\ ck[t].pc = "idle"
    /\ MutexFree(ntMu)
    /\ ntMu' = t
    /\ ck' = [ck EXCEPT ![t] = [pc |-> "test", nonce |-> nonce, result |-> FALSE]]
    /\ UNCHANGED <<seen, evicted>>

\* if _, exists := nt.seen[nonce]; exists { return false }
CkTest(t) ==
    /\ ck[t].pc = "test"
    /\ ck' = [ck EXCEPT ![t].pc =
                IF ck[t].nonce \in seen THEN "unlock" ELSE "insert"]
    /\ UNCHANGED <<seen, ntMu, evicted>>

\* The eviction and nt.seen[nonce] = struct{}{}; return true.
CkInsert(t) ==
    /\ ck[t].pc = "insert"
    /\ seen' = Evict(seen, max) \cup {ck[t].nonce}
    /\ evicted' = (evicted \/ Evict(seen, max) # seen)
    /\ ck' = [ck EXCEPT ![t].pc = "unlock", ![t].result = TRUE]
    /\ UNCHANGED ntMu

\* The deferred nt.mu.Unlock(); Check returns.
CkUnlock(t) ==
    /\ ck[t].pc = "unlock"
    /\ ntMu' = 0
    /\ ck' = [ck EXCEPT ![t].pc = "returned"]
    /\ UNCHANGED <<seen, evicted>>

CheckerNext ==
    \/ (\E t \in Checkers, n \in Nonces : CkLock(t, n)) /\ UNCHANGED checkerRest
    \/ (\E t \in Checkers : CkTest(t)) /\ UNCHANGED checkerRest
    \/ (\E t \in Checkers : CkInsert(t)) /\ UNCHANGED checkerRest
    \/ (\E t \in Checkers : CkUnlock(t)) /\ UNCHANGED checkerRest

\* C33: on a tracker of capacity C >= 1 the seen-set holds at most C nonces
\* in every state, whatever the callers and the order of their steps.
C33_SeenWithinCapacity == max >= 1 /\ Cardinality(seen) <= max

\* C33 witness: the set is full, it was reset by an insertion before, and
\* every caller has made its call.
C33_Witness ==
    /\ Cardinality(seen) = max
    /\ evicted
    /\ \A t \in Checkers : ck[t].pc = "returned"

\* The callers that presented the nonce n, and those whose call has
\* returned true.
Presenting(n) == {t \in Checkers : ck[t].nonce = n}
Accepted(n) == {t \in Presenting(n) : ck[t].pc = "returned" /\ ck[t].result}

\* C34: as long as no insertion reset the set, at most one of the callers
\* that present the same nonce gets true, and once all of them have
\* returned exactly one of them has.
C34_OneWinner ==
    ~evicted =>
        \A n \in Nonces :
            /\ Cardinality({t \in Presenting(n) : ck[t].result}) <= 1
            /\ (Presenting(n) # {} /\ \A t \in Presenting(n) : ck[t].pc = "returned")
                  => Cardinality(Accepted(n)) = 1

\* C34 witness: all callers presented the same nonce, all have returned and
\* one of them was told that the nonce is new.
C34_Witness ==
    /\ ~evicted
    /\ \E n \in Nonces :
          /\ Presenting(n) = Checkers
          /\ \A t \in Checkers : ck[t].pc = "returned"
          /\ Cardinality(Accepted(n)) = 1

(***************************************************************************)
(* A failing frame operation in a pump of the inbound (SpecTunnel)         *)
(***************************************************************************)
\* A pump of the inbound session has returned on a failed frame operation:
\* ReadFrame in requestDone, WriteFrame or MorphWrite in responseDone.
FrameOpFailed ==
    /\ tSide = "inbound"
    /\ \/ rdPump = "err" /\ tResult \in {"read frame", "unknown frame type"}
       \/ wrPump = "err" /\ tResult = "failed to write response frame"

\* C35: when ReadFrame fails in the request pump or a frame write fails in
\* the response pump of an inbound session, that pump reads or writes no
\* further frame, the handler has returned an error, and common.Interrupt
\* was called on link.Reader and on link.Writer.
C35_State ==
    FrameOpFailed =>
        /\ tStage = "done"
        /\ tResult # "nil" /\ tResult # ""
        /\ interrupted = {"link.Reader", "link.Writer"}

C35_Step ==
    /\ (tSide = "inbound" /\ rdPump = "err") => rdLog' = rdLog
    /\ (tSide = "inbound" /\ wrPump = "err") => connOut' = connOut

C35_FailedPumpStops == [][C35_State' /\ C35_Step]_vars

\* C35 witness: the second WriteFrame call of a multi-buffer of two failed
\* after frames had been read and written.
C35_Witness ==
    /\ FrameOpFailed
    /\ wrPump = "err"
    /\ Len(linkLog) = 2
    /\ Len(connOut) = 1
    /\ rdLog # <<>>
    /\ interrupted = {"link.Reader", "link.Writer"}

(***************************************************************************)
(* The stream behind a morphing sender (SpecMorph)                         *)
(***************************************************************************)
\* What the reading pump of the peer writes to its link for a DATA frame:
\* frame.Payload as ReadFrame opened it (inbound.go:244-249,
\* outbound_test.go:319-324), which is the chunk and the padding that
\* AddPadding appended to it.
Forwarded(plain) == [lo |-> plain.lo, hi |-> plain.hi, extra |-> plain.pad]

RECURSIVE ForwardedBytes(_)
\* The number of bytes the peer's link takes for a sequence of frames.
ForwardedBytes(f) ==
    IF f = <<>> THEN 0
    ELSE (Forwarded(Head(f).plain).hi - Forwarded(Head(f).plain).lo)
            + Forwarded(Head(f).plain).extra + ForwardedBytes(Tail(f))

\* C37: when a MorphWrite call of a morphing sender has returned, the bytes
\* the peer's pump has written to its link for the frames of that call are
\* the bytes of the buffer, in order, and nothing else: as many bytes as
\* the buffer had, no frame contributing a byte that was not in it.
C37_StreamPreserved ==
    \A c \in MorphConns :
        (Morphing(c) /\ ~mw[c].active /\ mw[c].frames # <<>>) =>
            /\ InOrder(c)
            /\ ForwardedBytes(mw[c].frames) = mw[c].n
            /\ \A i \in 1 .. Len(mw[c].frames) :
                  Forwarded(mw[c].frames[i].plain).extra = 0

\* What does hold: the bytes of the buffer are all there, in order, and
\* what is added comes after the last of them.
C37_DataFirst ==
    \A c \in MorphConns :
        (Morphing(c) /\ ~mw[c].active /\ mw[c].frames # <<>>) =>
            /\ InOrder(c)
            /\ mw[c].frames[Len(mw[c].frames)].plain.hi = mw[c].n
            /\ ForwardedBytes(mw[c].frames)
                  = mw[c].n + mw[c].frames[Len(mw[c].frames)].plain.pad

(***************************************************************************)
(* The blocking reads of an inbound connection and what ends them          *)
(* (checked under SpecWait and SpecWaitFair)                               *)
(*                                                                         *)
(* Process and handleSession read the connection at four places: Peek(4),  *)
(* ReadFull of the handshake, ReadFrame of the first frame, and ReadFrame  *)
(* in requestDone (io.Copy in the fallback). Time is counted in ticks; the *)
(* client sends its items when it likes, or never.                         *)
(***************************************************************************)
NoDeadline == [set |-> FALSE, left |-> 0]

\* conn.SetReadDeadline(time.Now().Add(timeout))
SetReadDeadline(timeout) == [set |-> TRUE, left |-> timeout]

WaitInit ==
    /\ wpc = "peek"
    /\ wMagic \in BOOLEAN
    /\ wFallback \in BOOLEAN
    /\ wDeadline = SetReadDeadline(HandshakeTicks)
    /\ wTimer = NoTimer
    /\ wQueue = 0
    /\ wLeft \in 0 .. MaxItems

WaitIdle ==
    /\ wpc = "off"
    /\ wMagic = FALSE
    /\ wFallback = FALSE
    /\ wDeadline = NoDeadline
    /\ wTimer = NoTimer
    /\ wQueue = 0
    /\ wLeft = 0

waitRest == <<trackerVars, timeVars, sessVars, connVars, threadVars, morphVars,
              destVars, tunnelVars, advVars, checkerVars>>

\* The reads that block until the client sends.
BlockingReads == {"peek", "handshake", "firstframe", "pump", "relay"}

\* The timer as handleSession has it when it reads the first frame: the
\* call of signal.CancelAfterInactivity comes after that read
\* (inbound.go:207, 221).
TimerAtSession == NoTimer

\* The client sends its next item.
WSend ==
    /\ wpc # "done"
    /\ wLeft > 0
    /\ wLeft' = wLeft - 1
    /\ wQueue' = wQueue + 1
    /\ UNCHANGED <<wpc, wMagic, wFallback, wDeadline, wTimer>>

\* handleFallback up to task.Run: the deadline is cleared and the timer
\* made (inbound.go:349-369).
ToRelay ==
    /\ wpc' = "relay"
    /\ wDeadline' = NoDeadline
    /\ wTimer' = CancelAfterInactivity(IdleTicks)

\* reader.Peek(4) returns the first bytes (inbound.go:107-122).
WPeek ==
    /\ wpc = "peek"
    /\ wQueue >= 1
    /\ IF wMagic
       THEN wpc' = "handshake" /\ UNCHANGED <<wDeadline, wTimer>>
       ELSE IF wFallback
       THEN ToRelay
       ELSE wpc' = "done" /\ UNCHANGED <<wDeadline, wTimer>>
    /\ UNCHANGED <<wMagic, wFallback, wQueue, wLeft>>

\* io.ReadFull of the handshake returns; the checks pass, the server
\* handshake is written, the deadline is cleared and handleSession is
\* entered (inbound.go:125-185).
WReadHandshake ==
    /\ wpc = "handshake"
    /\ wQueue >= 2
    /\ wQueue' = wQueue - 2
    /\ wDeadline' = NoDeadline
    /\ wTimer' = TimerAtSession
    /\ wpc' = "firstframe"
    /\ UNCHANGED <<wMagic, wFallback, wLeft>>

\* sess.ReadFrame returns the first frame; the timer is made and the pumps
\* start (inbound.go:207-226).
WFirstFrame ==
    /\ wpc = "firstframe"
    /\ wQueue >= 1
    /\ wQueue' = wQueue - 1
    /\ wTimer' = CancelAfterInactivity(IdleTicks)
    /\ wpc' = "pump"
    /\ UNCHANGED <<wMagic, wFallback, wDeadline, wLeft>>

\* A read of requestDone returns a frame (timer.Update), or io.Copy of the
\* fallback moves a chunk (no Update).
WPump ==
    /\ wpc \in {"pump", "relay"}
    /\ wQueue >= 1
    /\ wQueue' = wQueue - 1
    /\ wTimer' = (IF wpc = "pump" THEN Update(wTimer) ELSE wTimer)
    /\ UNCHANGED <<wpc, wMagic, wFallback, wDeadline, wLeft>>

\* A tick of the clock.
WTick ==
    /\ wpc \in BlockingReads
    /\ \/ wDeadline.set /\ wDeadline.left > 0
       \/ wTimer # NoTimer /\ wTimer.idle < wTimer.timeout
    /\ wDeadline' = (IF wDeadline.set /\ wDeadline.left > 0
                     THEN [wDeadline EXCEPT !.left = @ - 1] ELSE wDeadline)
    /\ wTimer' = (IF wTimer # NoTimer /\ wTimer.idle < wTimer.timeout
                  THEN [wTimer EXCEPT !.idle = @ + 1] ELSE wTimer)
    /\ UNCHANGED <<wpc, wMagic, wFallback, wQueue, wLeft>>

\* The read the handler is blocked in returns a timeout error: the deadline
\* has passed. Peek's error leads to the fallback when there is one.
WTimeout ==
    /\ wpc \in {"peek", "handshake", "firstframe"}
    /\ wDeadline.set
    /\ wDeadline.left = 0
    /\ IF wpc = "peek" /\ wFallback
       THEN ToRelay
       ELSE wpc' = "done" /\ UNCHANGED <<wDeadline, wTimer>>
    /\ UNCHANGED <<wMagic, wFallback, wQueue, wLeft>>

\* The check of the timer finds no Update within its period: the context
\* is cancelled, task.Run returns and the connection is closed.
WExpire ==
    /\ wpc \in {"pump", "relay"}
    /\ wTimer.idle >= wTimer.timeout
    /\ wTimer' = [wTimer EXCEPT !.cancelled = TRUE]
    /\ wpc' = "done"
    /\ UNCHANGED <<wMagic, wFallback, wDeadline, wQueue, wLeft>>

WaitNext ==
    \/ WSend /\ UNCHANGED waitRest
    \/ WPeek /\ UNCHANGED waitRest
    \/ WReadHandshake /\ UNCHANGED waitRest
    \/ WFirstFrame /\ UNCHANGED waitRest
    \/ WPump /\ UNCHANGED waitRest
    \/ WTick /\ UNCHANGED waitRest
    \/ WTimeout /\ UNCHANGED waitRest
    \/ WExpire /\ UNCHANGED waitRest

\* A deadline or a timer stands behind the read the handler is in.
Covered ==
    \/ wDeadline.set
    \/ wTimer # NoTimer /\ ~wTimer.cancelled

\* C38: a client that has been answered with the server handshake and sends
\* nothing more is disconnected in the end.
C38_SilentClientDisconnected ==
    (wpc = "firstframe" /\ wQueue = 0 /\ wLeft = 0) ~> (wpc = "done")

\* The same as a fact about states: every blocking read has a deadline or
\* a timer behind it.
C38_ReadsCovered == wpc \in BlockingReads => Covered

\* What does hold: up to the server handshake the deadline is set, from the
\* start of the pumps on the timer runs, and a client that falls silent in
\* either part is disconnected.
C38_CoveredElsewhere == wpc \in (BlockingReads \ {"firstframe"}) => Covered

C38_SilentElsewhere ==
    (wpc \in (BlockingReads \ {"firstframe"}) /\ wQueue = 0 /\ wLeft = 0)
        ~> (wpc \in {"done", "firstframe"})

(***************************************************************************)
(* The plaintexts the handlers hand to WriteFrame (SpecHandlerWrites)      *)
(*                                                                         *)
(* SpecHandlerWrites is SpecSession with the writes the two handlers make  *)
(* when no morph is enabled: the client's first frame is the destination   *)
(* followed by all buffers of the first multi-buffer, every other frame    *)
(* is one buffer. A buffer of xray-core holds up to BufferBytes bytes.     *)
(***************************************************************************)
\* The sizes of one buffer of a multi-buffer.
BufferLens == {1, BufferBytes}

\* The sizes of the first payload of the outbound: the buffers of one
\* multi-buffer appended, none when the timed read timed out.
FirstPayloadLens == {k * BufferBytes : k \in 0 .. MaxFirstBuffers}

\* postRequest of the outbound: WriteFrame(DATA, destData + first payload)
\* as the first frame of the client.
WriteFirstFrame(target, n) ==
    /\ wrote["client"] = <<>>
    /\ WriteFrame("client", FrameTypeData,
                  NextData("client", Len(marshalDestination(target)) + n))

\* A pump writes one buffer with WriteFrame(DATA, b.Bytes()).
WriteBuffer(p, n) ==
    /\ p = "client" => wrote["client"] # <<>>
    /\ WriteFrame(p, FrameTypeData, NextData(p, n))

HandlerWritesNext ==
    \/ (\E t \in TunnelTargets, n \in FirstPayloadLens : WriteFirstFrame(t, n))
          /\ UNCHANGED <<trackerVars, restVars, connVars>>
    \/ (\E p \in Peers, n \in BufferLens : WriteBuffer(p, n))
          /\ UNCHANGED <<trackerVars, restVars, connVars>>
    \/ SessRead /\ UNCHANGED <<trackerVars, restVars, connVars>>

\* Peer p makes a WriteFrame call in this step.
WritesNow(p) == Len(wrote'[p]) = Len(wrote[p]) + 1

\* C39: the length field of every header WriteFrame emits is the number of
\* bytes of the ciphertext written after it, and the plaintext of no frame
\* has more than MaxFramePayload bytes, for the first frame of the outbound
\* and for every buffer written without morphing.
C39_Step ==
    \A p \in Peers :
        WritesNow(p) =>
            LET w == wire'[p]
                header == w[Len(w) - 1]
                encrypted == w[Len(w)]
            IN  /\ header.kind = "hdr" /\ encrypted.kind = "ct"
                /\ header.length = encrypted.size
                /\ encrypted.pt.size <= MaxFramePayload

C39_LengthIsCiphertext == [][C39_Step]_vars

\* What does hold: the length field is the length of the ciphertext
\* whenever the plaintext has at most 65519 bytes, as every single buffer
\* has, and then the frame is read back as it was written.
C39_WithinUint16 ==
    [][\A p \in Peers :
          (WritesNow(p) /\ wire'[p][Len(wire'[p])].pt.size + AeadOverhead < 65536)
             => wire'[p][Len(wire'[p]) - 1].length = wire'[p][Len(wire'[p])].size]_vars

(***************************************************************************)
(* The MorphWrite loop comes to an end (SpecMorph)                         *)
(***************************************************************************)
\* The bytes of its input connection c's MorphWrite has still to write.
Remaining(c) == mw[c].rest.hi - mw[c].rest.lo

\* C40: every round of the MorphWrite loop works with a target size and a
\* chunk size of at least one, takes its chunk from inside the data and
\* leaves fewer bytes than it found, at least one less; the loop runs only
\* while bytes remain. The number of rounds of a call is therefore at most
\* the number of bytes of its input.
C40_Step ==
    \A c \in MorphConns :
        RoundOf(c) =>
            LET chunk == mw'[c].frames[Len(mw'[c].frames)].plain IN
            /\ Remaining(c) > 0
            /\ mlast'.targetSize >= 1
            /\ ChunkSize(mlast'.targetSize) >= 1
            /\ 0 <= chunk.lo /\ chunk.lo < chunk.hi /\ chunk.hi <= mw[c].n
            /\ chunk.lo = mw[c].rest.lo
            /\ mw'[c].rest.lo = chunk.hi /\ mw'[c].rest.hi = mw[c].n
            /\ mw'[c].rest.hi - mw'[c].rest.lo >= 0
            /\ mw'[c].rest.hi - mw'[c].rest.lo <= Remaining(c) - 1

C40_MorphWriteTerminates ==
    /\ [][C40_Step]_vars
    /\ [](\A c \in MorphConns :
            (mstage[c] = "session" /\ ~mw[c].active) => Remaining(c) = 0)

\* C40 witness: a round whose target size a PADDING frame set to 1 has
\* written a chunk of one byte and the loop goes on with the rest.
C40_Witness ==
    \E c \in MorphConns :
        /\ mw[c].active
        /\ mlast = [mlast EXCEPT !.conn = c, !.targetSize = 1]
        /\ Len(mw[c].frames) = 1
        /\ mw[c].frames[1].plain = [lo |-> 0, hi |-> 1, pad |-> 0]
        /\ Remaining(c) = mw[c].n - 1

(***************************************************************************)
(* Specifications                                                          *)
(***************************************************************************)
ExtraIdle == ThreadIdle /\ MorphIdle /\ DestIdle /\ TunnelIdle /\ AdvIdle /\ CheckerIdle /\ WaitIdle
RestIdle == TimeIdle /\ ExtraIdle

InitTracker == TrackerInit /\ RestIdle /\ SessIdle /\ ConnIdle

SpecTracker == InitTracker /\ [][TrackerNext]_vars

InitTime == TimeInit /\ TrackerIdle /\ SessIdle /\ ConnIdle /\ ExtraIdle

SpecTime == InitTime /\ [][TimeNext]_vars

InitSession == SessInit /\ TrackerIdle /\ RestIdle /\ ConnIdle

SpecSession == InitSession /\ [][SessNext]_vars

InitInbound ==
    /\ ConnInit
    /\ calls = 0
    /\ lastNonce = -1
    /\ lastResult = FALSE
    /\ accepts = <<>>
    /\ clearedAt = {}
    /\ sizeAt = <<>>
    /\ others = <<>>
    /\ RestIdle

SpecInbound == InitInbound /\ [][ConnNext]_vars

SpecWire == InitSession /\ [][WireNext]_vars

InitThreads ==
    ThreadInit /\ TrackerIdle /\ TimeIdle /\ ConnIdle /\ MorphIdle /\ DestIdle
        /\ TunnelIdle
        /\ AdvIdle
        /\ CheckerIdle
        /\ WaitIdle

SpecThreads == InitThreads /\ [][ThreadNext]_vars

InitMorph ==
    MorphInit /\ TrackerIdle /\ TimeIdle /\ SessIdle /\ ConnIdle /\ ThreadIdle /\ DestIdle
        /\ TunnelIdle
        /\ AdvIdle
        /\ CheckerIdle
        /\ WaitIdle

SpecMorph == InitMorph /\ [][MorphNext]_vars

InitDest ==
    DestInit /\ TrackerIdle /\ TimeIdle /\ SessIdle /\ ConnIdle /\ ThreadIdle /\ MorphIdle
        /\ TunnelIdle
        /\ AdvIdle
        /\ CheckerIdle
        /\ WaitIdle

SpecDest == InitDest /\ [][DestNext]_vars

InitTunnel ==
    TunnelInit /\ TrackerIdle /\ TimeIdle /\ SessIdle /\ ConnIdle /\ ThreadIdle
        /\ MorphIdle /\ DestIdle
        /\ AdvIdle
        /\ CheckerIdle
        /\ WaitIdle

SpecTunnel == InitTunnel /\ [][TunnelNext]_vars

InitAdv ==
    SessInit /\ AdvInit /\ TrackerIdle /\ TimeIdle /\ ConnIdle /\ ThreadIdle
        /\ MorphIdle /\ DestIdle /\ TunnelIdle
        /\ CheckerIdle
        /\ WaitIdle

SpecTransport == InitAdv /\ [][TransportNext]_vars

InitChecker ==
    CheckerInit /\ TimeIdle /\ SessIdle /\ ConnIdle /\ ThreadIdle /\ MorphIdle
        /\ DestIdle /\ TunnelIdle /\ AdvIdle
        /\ WaitIdle

SpecCheckers == InitChecker /\ [][CheckerNext]_vars

InitWait ==
    WaitInit /\ TrackerIdle /\ TimeIdle /\ SessIdle /\ ConnIdle /\ ThreadIdle
        /\ MorphIdle /\ DestIdle /\ TunnelIdle /\ AdvIdle /\ CheckerIdle

SpecWait == InitWait /\ [][WaitNext]_vars

\* Time passes, the runtime ends a read whose deadline has passed and runs
\* the check of the timer, and the handler's goroutine is scheduled when
\* what it waits for is there. Nothing makes a client send.
SpecWaitFair ==
    /\ InitWait
    /\ [][WaitNext]_vars
    /\ WF_waitVars(WTick)
    /\ WF_waitVars(WTimeout)
    /\ WF_waitVars(WExpire)
    /\ WF_waitVars(WPeek)
    /\ WF_waitVars(WReadHandshake)
    /\ WF_waitVars(WFirstFrame)

SpecHandlerWrites == InitSession /\ [][HandlerWritesNext]_vars

=============================================================================
